---- MODULE Spec2Model ----
(***************************************************************************)
(* LinGlide: pairing / token authentication core, persistent device store, *)
(* websocket gateway and segment broadcast, modelled as a state machine.   *)
(*                                                                         *)
(* Every request served by the HTTP server is an async task; a task is a   *)
(* member of Procs and pc[p] is its position between two await points.     *)
(* State guarded by a tokio RwLock is read or written in one step, which   *)
(* is the critical section the guard delimits.                             *)
(***************************************************************************)
EXTENDS Integers, Sequences, FiniteSets, TLC

(* ---------------------------- constants -------------------------------- *)

\* pairing.rs: validity of a PIN in seconds
PIN_VALIDITY_SECONDS == 60

\* main.rs: capacity of the segment broadcast channel
SEGMENT_CAPACITY == 16

(* ------------------------------ bounds --------------------------------- *)

\* sessions that start_pairing may create in one run
MaxSessions == 2
\* tokens / devices that verify_pin may generate in one run
MaxDevices == 2
\* clock advances in one run
MaxTicks == 2
\* device-file writes that may fail in one run
MaxIoFailures == 1
\* sessions and devices in one run behind the gateway
GwSessions == 1
GwDevices == 1
\* websocket upgrade requests in one run
MaxConns == 2
\* frames, keyframes and failed encodes while viewers join
JoinFrames == 4
JoinKeyframes == 2
JoinErrors == 1
\* frames, keyframes and failed encodes while viewers lag
LagFrames == 18
LagKeyframes == 1
\* viewers that lag connect before this many segments were published
LagJoinBy == 1
\* text messages read from input sockets in one run
MaxInputMsgs == 2
\* verify_pin calls recorded in one run
MaxCalls == 3
\* sessions, devices and clock advances in the runs that record calls
VerifySessions == 2
VerifyDevices == 1
\* device ids used in calls of DeviceStorage
StoreDevices == 2
\* touch events handled in one run, and touches already down when it starts
MaxTouchEvents == 5
TouchesDown == 8
\* sessions started and status or QR requests answered in one run
StatusSessions == 2
MaxReports == 2
\* certificates generated and clock advances while certificates are loaded
MaxCerts == 3
MaxCertTicks == 3
\* sessions, devices, frames and keyframes while devices are revoked
RevSessions == 1
RevDevices == 1
RevFrames == 2
RevKeyframes == 1
\* frames and keyframes published while the keyframe task may fall behind
KfFrames == 18
KfKeyframes == 2
\* frames the capture thread captures in one run
MaxCaptured == 3
\* viewer connections while frames are captured
CaptureViewers == 1
\* successful validate_token calls recorded in one run
MaxValidations == 2
\* stylus events handled in one run
MaxStylusEvents == 6

Procs == {1, 2}
Pins == {"000000", "483920"}
TickSteps == {1, PIN_VALIDITY_SECONDS}
SessionIds == 1..MaxSessions
DeviceIds == 1..MaxDevices
StoreIds == 1..StoreDevices
NoToken == 0
\* devices.json: absent, a serialized device map, or bytes that do not parse
NoFile == [kind |-> "none", devices |-> <<>>]
Corrupt == [kind |-> "corrupt", devices |-> <<>>]
JsonFile(m) == [kind |-> "json", devices |-> m]

VARIABLES
    now,          \* Utc::now(), in seconds
    ticks,        \* clock advances so far
    sessions,     \* PairingManager.sessions: session id -> PairingSession
    nextSession,  \* Uuid::new_v4() for sessions: number of ids drawn
    devices,      \* DeviceStorage.data.devices: device id -> Device
    nextDevice,   \* Uuid::new_v4() / generate_token(): number drawn
    file,         \* content of devices.json: a device map, NoFile or Corrupt
    ioFailures,   \* failed file writes so far
    pc,           \* position of each task
    loc,          \* locals of each task
    responses,    \* PairingVerifyResponse values returned so far
    issued,       \* devices inserted into the store so far: id, token, session
    revoked,      \* device ids removed by remove_device so far
    auth_required,\* AppState.auth_required
    conns,        \* websocket upgrade requests: connection id -> record
    subscribed,   \* connection ids for which video_tx.subscribe() ran
    input_q,      \* input_tx: events forwarded, tagged with their connection
    main_pc,      \* main(): "wait_init", "subscribe_kf" or "serving"
    enc_pc,       \* encoder thread: "new", "send_init", "run" or "failed"
    init_rx,      \* the init channel: 0 empty, 1 message queued, 2 received
    init_segment, \* AppState.init_segment is Some
    keyframe_segment, \* AppState.keyframe_segment: sequence of the cached segment, 0 for None
    published,    \* every StreamSegment sent on segment_tx, in order
    frame_seq,    \* sequence of the last frame the pipeline received
    kf_rx,        \* keyframe task: its receiver position and whether it runs
    viewer,       \* per task: receiver position and what was written to the socket
    sequence_number,  \* Fmp4Muxer.sequence_number
    history,      \* calls and their outcomes, recorded when history.on
    active_touches,   \* VirtualTouchscreen.active_touches: touch id -> slot
    next_tracking_id, \* VirtualTouchscreen.next_tracking_id
    emitted,      \* the call and the events of the last device.emit
    touch_count,  \* touch events handled so far
    writing,      \* per task: the DeviceStorage call it is in and its file write
    tracked,      \* slots that hold a tracking id in the events emitted so far
    cap_pc,       \* capture thread: "setup", "loop" or "exited"
    cap_fatal,    \* the capture source has failed for good
    captured,     \* frames captured so far
    frame_q,      \* frame_tx / frame_rx: the frames queued
    frame_count,  \* H264Encoder.frame_count
    encoded,      \* what the last H264Encoder::encode traced byte by byte returned
    stylus,       \* VirtualStylus: in_range, tip_down, eraser_mode and the buttons
    stylus_emitted,   \* the call and the events of the last emit of the stylus
    stylus_count, \* stylus events handled so far
    cert_file,    \* server.crt
    key_file,     \* server.key
    meta_file,    \* cert_meta.json
    tls_pc,       \* CertificateManager::generate_and_save: the write it is at
    tls_ret,      \* what the last load_or_generate returned, and what it found
    tls_gen,      \* certificates generated so far
    scroll_emitted,   \* the last RelativeMouse::scroll: its deltas and its events
    ws_in,        \* per input connection: the messages read from the socket so far
    sock,         \* per input connection: where handle_input_socket is
    input_tx,     \* the input channel: events sent and not yet received
    input_rx_open,    \* the input task still holds input_rx
    dispatched,   \* the events the input task has received, in order
    server_handle,    \* ServerController.server_handle: 0 for None, else the task it signals
    server_tasks, \* the server tasks spawned so far: "running", "signalled" or "ended"
    ui_events,    \* the UiEvents sent on event_tx
    ctl_pc,       \* ServerController::run: "run" or "stopped"
    command_rx    \* the UiCommands the controller has received so far

authVars == <<now, ticks, sessions, nextSession, devices, nextDevice, file,
              ioFailures, responses, issued, revoked>>
gateVars == <<auth_required, conns, subscribed, input_q>>
videoVars == <<main_pc, enc_pc, init_rx, init_segment, keyframe_segment,
               published, frame_seq, kf_rx, viewer, sequence_number>>
histVars == <<history>>
storeVars == <<writing>>
inputVars == <<active_touches, next_tracking_id, emitted, touch_count, tracked>>
captureVars == <<cap_pc, cap_fatal, captured, frame_q>>
encVars == <<frame_count, encoded>>
stylusVars == <<stylus, stylus_emitted, stylus_count>>
tlsVars == <<cert_file, key_file, meta_file, tls_pc, tls_ret, tls_gen>>
deskVars == <<scroll_emitted, ws_in, sock, input_tx, input_rx_open, dispatched,
              server_handle, server_tasks, ui_events, ctl_pc, command_rx>>
restVars == <<captureVars, encVars, stylusVars, tlsVars, deskVars>>
vars == <<authVars, pc, loc, gateVars, videoVars, histVars, inputVars, storeVars, restVars>>

(* ------------------------------ helpers -------------------------------- *)

EmptyMap == <<>>

MapPut(m, k, v) == [x \in (DOMAIN m) \cup {k} |-> IF x = k THEN v ELSE m[x]]

MapRemove(m, k) == [x \in (DOMAIN m) \ {k} |-> m[x]]

NoLoc == [sid |-> 0, token |-> NoToken, id |-> 0, conn |-> 0]

NoViewer == [next |-> 0, sub |-> 0, trace |-> <<>>]

\* the record of calls is empty; it is kept while on holds
Recording(on) ==
    history = [on |-> on, calls |-> <<>>, created |-> EmptyMap, last_write |-> "none",
               failed |-> {}, validated |-> {}, reported |-> <<>>]

\* what was done in the call recorded last, when recording
Record(e) ==
    history' = IF history.on THEN [history EXCEPT !.calls = Append(@, e)] ELSE history

\* no DeviceStorage call is in progress in the task
NoWrite == [op |-> "none", id |-> 0, stage |-> "none", json |-> EmptyMap, old |-> NoFile]

NoEmit == [op |-> "none", id |-> 0, slot |-> 0, used |-> {}, events |-> <<>>, ok |-> TRUE]

\* no H264Encoder::encode was traced yet
NoEncoded == [res |-> "none", data |-> <<>>, pts |-> 0, is_keyframe |-> FALSE]

\* H264Encoder::new
EncoderNew == frame_count = 0 /\ encoded = NoEncoded

\* the capture thread is in its loop and no frame is queued
CaptureRunning == cap_pc = "loop" /\ cap_fatal = FALSE /\ captured = 0 /\ frame_q = <<>>

\* VirtualStylus::new
StylusFields ==
    [in_range |-> FALSE, tip_down |-> FALSE, eraser_mode |-> FALSE,
     stylus_button1 |-> FALSE, stylus_button2 |-> FALSE]

\* the keys of the stylus device whose value the model follows
StylusKeys == {"BTN_TOOL_PEN", "BTN_TOOL_RUBBER", "BTN_TOUCH"}

\* nothing was emitted: every key of the new device is 0; failed tells that
\* an emit has failed
NoStylusEmit ==
    [op |-> "none", button |-> "none", was |-> StylusFields, events |-> <<>>, ok |-> TRUE,
     keys |-> [k \in StylusKeys |-> 0], failed |-> FALSE]

StylusNew == stylus = StylusFields /\ stylus_emitted = NoStylusEmit /\ stylus_count = 0

\* the configuration directory holds no certificate
NoMeta == [kind |-> "none", expires_at |-> 0, fingerprint |-> 0, hostnames |-> <<>>]

NoTlsRet == [res |-> "none", cert |-> 0, key |-> 0, fingerprint |-> 0, hostnames |-> <<>>,
             found |-> [cert |-> 0, key |-> 0, meta |-> NoMeta, gen |-> 0], at |-> 0,
             generated |-> FALSE]

NoCertificate ==
    /\ cert_file = 0 /\ key_file = 0 /\ meta_file = NoMeta
    /\ tls_pc = "idle" /\ tls_ret = NoTlsRet /\ tls_gen = 0

\* RelativeMouse::new, no input connection, and ServerController::new
NoScroll == [op |-> "none", dx |-> 0, dy |-> 0, events |-> <<>>]

SockNew == [state |-> "none", held |-> 0]

DeskNew ==
    /\ scroll_emitted = NoScroll
    /\ ws_in = [p \in Procs |-> <<>>]
    /\ sock = [p \in Procs |-> SockNew]
    /\ input_tx = <<>>
    /\ input_rx_open = TRUE
    /\ dispatched = <<>>
    /\ server_handle = 0
    /\ server_tasks = <<>>
    /\ ui_events = <<>>
    /\ ctl_pc = "run"
    /\ command_rx = <<>>

\* what main has created before the server serves, apart from the touchscreen
HostState == CaptureRunning /\ EncoderNew /\ StylusNew /\ NoCertificate /\ DeskNew

\* VirtualTouchscreen::new: no touch is active
NoTouch ==
    /\ tracked = {}
    /\ active_touches = EmptyMap
    /\ next_tracking_id = 0
    /\ emitted = NoEmit
    /\ touch_count = 0

(* --------------------------- pairing.rs -------------------------------- *)

\* hash_token: base64(SHA-256(token)); a digest is not the token, and two
\* tokens have different digests
hash_token(token) == <<"sha256", token>>

\* PairingSession::new
PairingSessionNew(pin) == [pin |-> pin, expires_at |-> now + PIN_VALIDITY_SECONDS]

\* PairingSession::is_expired
is_expired(s) == now > s.expires_at

\* a verify_pin that does not look at the expiry
session_verify_pin_no_expiry(s, pin) == s.pin = pin

\* PairingSession::verify_pin
session_verify_pin(s, pin) == ~is_expired(s) /\ s.pin = pin

\* Device::new
DeviceNew(id, token_hash) ==
    [id |-> id, last_seen |-> now, token_hash |-> token_hash]

\* DeviceStorage::get_device_by_token_hash
get_device_by_token_hash(h) == {devices[i] : i \in {j \in DOMAIN devices : devices[j].token_hash = h}}

\* PairingManager::validate_token: the devices the token resolves to; empty
\* is InvalidToken
validate_token(token) == get_device_by_token_hash(hash_token(token))

\* PairingManager::list_devices
list_devices == {devices[i] : i \in DOMAIN devices}

\* a verify_pin call at its session lookup and PIN check: found tells
\* whether the session was in the map, known whether start_pairing had
\* handed out the session id, id is the device it goes on to save,
\* devs what list_devices returns at that moment
CallEvent(sid, pin, res, id) ==
    [ev |-> "call", sid |-> sid, pin |-> pin, at |-> now, res |-> res,
     found |-> sid \in DOMAIN sessions, known |-> sid <= nextSession, id |-> id,
     devs |-> list_devices]

\* a verify_pin call that got past the check returns Ok or a Storage error
ReturnEvent(sid, res, id) ==
    [ev |-> "ret", sid |-> sid, pin |-> "", at |-> now, res |-> res, found |-> FALSE,
     known |-> TRUE, id |-> id, devs |-> list_devices]

\* a call returns: the task is free again
Done(p) ==
    /\ pc' = [pc EXCEPT ![p] = "idle"]
    /\ loc' = [loc EXCEPT ![p] = NoLoc]

\* the system clock moves on
Tick ==
    /\ ticks < MaxTicks
    /\ \E d \in TickSteps : now' = now + d
    /\ ticks' = ticks + 1
    /\ UNCHANGED <<restVars, histVars, inputVars, storeVars, sessions, nextSession, devices, nextDevice, file, ioFailures,
                   responses, issued, revoked, pc, loc, gateVars, videoVars>>

\* a start_pairing that inserts the session and sweeps nothing
start_pairing_without_sweep(p, maxSessions) ==
    /\ pc[p] = "idle"
    /\ nextSession < maxSessions
    /\ \E pin \in Pins :
         LET sid == nextSession + 1
             inserted == MapPut(sessions, sid, PairingSessionNew(pin))
         IN /\ sessions' = inserted
            /\ nextSession' = sid
            /\ history' = IF history.on
                           THEN [history EXCEPT !.created = MapPut(@, sid, inserted[sid])]
                           ELSE history
            /\ Done(p)
    /\ UNCHANGED <<restVars, inputVars, storeVars, now, ticks, devices, nextDevice, file, ioFailures,
                   responses, issued, revoked, gateVars, videoVars>>

\* PairingManager::start_pairing
start_pairing(p, maxSessions) ==
    /\ pc[p] = "idle"
    /\ nextSession < maxSessions
    /\ \E pin \in Pins :
         LET sid == nextSession + 1
             inserted == MapPut(sessions, sid, PairingSessionNew(pin))
             kept == {k \in DOMAIN inserted : ~is_expired(inserted[k])}
         IN /\ sessions' = [k \in kept |-> inserted[k]]
            /\ nextSession' = sid
            /\ history' = IF history.on
                           THEN [history EXCEPT !.created = MapPut(@, sid, inserted[sid])]
                           ELSE history
            /\ Done(p)
    /\ UNCHANGED <<restVars, inputVars, storeVars, now, ticks, devices, nextDevice, file, ioFailures,
                   responses, issued, revoked, gateVars, videoVars>>

\* a verify_pin that drops the session when the PIN is wrong
verify_pin_check_drops_session(p, maxDevices) ==
    /\ pc[p] = "idle"
    /\ history.on => Len(history.calls) < MaxCalls
    /\ \E sid \in SessionIds, pin \in Pins :
         IF sid \notin DOMAIN sessions
         THEN /\ Done(p)
              /\ Record(CallEvent(sid, pin, "SessionNotFound", 0))
              /\ UNCHANGED <<nextDevice, sessions>>
         ELSE IF ~session_verify_pin(sessions[sid], pin)
         THEN /\ Done(p)
              /\ Record(CallEvent(sid, pin, "InvalidPin", 0))
              /\ sessions' = MapRemove(sessions, sid)
              /\ UNCHANGED nextDevice
         ELSE /\ nextDevice < maxDevices
              /\ nextDevice' = nextDevice + 1
              /\ Record(CallEvent(sid, pin, "Accepted", nextDevice + 1))
              /\ UNCHANGED sessions
              /\ pc' = [pc EXCEPT ![p] = "vp_insert"]
              /\ loc' = [loc EXCEPT ![p] = [sid |-> sid, token |-> nextDevice + 1,
                                            id |-> nextDevice + 1, conn |-> 0]]
    /\ UNCHANGED <<restVars, inputVars, storeVars, now, ticks, nextSession, devices, file, ioFailures,
                   responses, issued, revoked, gateVars, videoVars>>

\* PairingManager::verify_pin, up to the call of save_device
verify_pin_check(p, maxDevices) ==
    /\ pc[p] = "idle"
    /\ history.on => Len(history.calls) < MaxCalls
    /\ \E sid \in SessionIds, pin \in Pins :
         IF sid \notin DOMAIN sessions
         THEN /\ Done(p)
              /\ Record(CallEvent(sid, pin, "SessionNotFound", 0))
              /\ UNCHANGED nextDevice
         ELSE IF ~session_verify_pin(sessions[sid], pin)
         THEN /\ Done(p)
              /\ Record(CallEvent(sid, pin, "InvalidPin", 0))
              /\ UNCHANGED nextDevice
         ELSE /\ nextDevice < maxDevices
              /\ nextDevice' = nextDevice + 1
              /\ Record(CallEvent(sid, pin, "Accepted", nextDevice + 1))
              /\ pc' = [pc EXCEPT ![p] = "vp_insert"]
              /\ loc' = [loc EXCEPT ![p] = [sid |-> sid, token |-> nextDevice + 1,
                                            id |-> nextDevice + 1, conn |-> 0]]
    /\ UNCHANGED <<restVars, inputVars, storeVars, now, ticks, sessions, nextSession, devices, file, ioFailures,
                   responses, issued, revoked, gateVars, videoVars>>

\* a save_device that keys every device by the same map key
verify_pin_insert_same_key(p) ==
    /\ pc[p] = "vp_insert"
    /\ devices' = MapPut(devices, 1, DeviceNew(loc[p].id, hash_token(loc[p].token)))
    /\ issued' = issued \cup {[id |-> loc[p].id, token |-> loc[p].token, sid |-> loc[p].sid]}
    /\ pc' = [pc EXCEPT ![p] = "vp_save"]
    /\ UNCHANGED <<restVars, histVars, inputVars, storeVars, now, ticks, sessions, nextSession, nextDevice, file, ioFailures,
                   responses, revoked, loc, gateVars, videoVars>>

\* DeviceStorage::save_device, the write-locked insert
verify_pin_insert(p) ==
    /\ pc[p] = "vp_insert"
    /\ devices' = MapPut(devices, loc[p].id, DeviceNew(loc[p].id, hash_token(loc[p].token)))
    /\ issued' = issued \cup {[id |-> loc[p].id, token |-> loc[p].token, sid |-> loc[p].sid]}
    /\ pc' = [pc EXCEPT ![p] = "vp_save"]
    /\ UNCHANGED <<restVars, histVars, inputVars, storeVars, now, ticks, sessions, nextSession, nextDevice, file, ioFailures,
                   responses, revoked, loc, gateVars, videoVars>>

\* DeviceStorage::save: serialize the map under the read lock and write the
\* file; a failed write leaves the old content or a truncated file
SaveOk == file' = JsonFile(devices) /\ UNCHANGED ioFailures

SaveFails ==
    /\ ioFailures < MaxIoFailures
    /\ ioFailures' = ioFailures + 1
    /\ file' \in {file, Corrupt}

\* DeviceStorage::save_device after the insert, and the rest of verify_pin
verify_pin_save(p) ==
    /\ pc[p] = "vp_save"
    /\ \/ /\ SaveOk
          /\ pc' = [pc EXCEPT ![p] = "vp_remove"]
          /\ UNCHANGED <<loc, histVars>>
       \/ /\ SaveFails
          /\ Record(ReturnEvent(loc[p].sid, "Storage", loc[p].id))
          /\ Done(p)
    /\ UNCHANGED <<restVars, inputVars, storeVars, now, ticks, sessions, nextSession, devices, nextDevice,
                   responses, issued, revoked, gateVars, videoVars>>

\* PairingManager::verify_pin: remove the used session and return
verify_pin_remove(p) ==
    /\ pc[p] = "vp_remove"
    /\ sessions' = MapRemove(sessions, loc[p].sid)
    /\ responses' = responses \cup {[sid |-> loc[p].sid, device_id |-> loc[p].id, token |-> loc[p].token]}
    /\ Record(ReturnEvent(loc[p].sid, "Ok", loc[p].id))
    /\ Done(p)
    /\ UNCHANGED <<restVars, inputVars, storeVars, now, ticks, nextSession, devices, nextDevice, file, ioFailures,
                   issued, revoked, gateVars, videoVars>>

\* PairingManager::validate_token, called on its own: the device whose
\* token hash matches, or InvalidToken
validate_token_call(p, tokens) ==
    /\ pc[p] = "idle"
    /\ Cardinality(history.validated) < MaxValidations
    /\ \E tok \in tokens :
         history' = IF history.on
                    THEN [history EXCEPT !.validated =
                            @ \cup {[token |-> tok, at |-> now, id |-> d.id] : d \in validate_token(tok)}]
                    ELSE history
    /\ UNCHANGED <<restVars, inputVars, storeVars, authVars, pc, loc, gateVars, videoVars>>

\* what a status or QR request was answered, with the clock at the call
Reported(op, sid, valid, pin, expires_in) ==
    [op |-> op, sid |-> sid, valid |-> valid, pin |-> pin, expires_in |-> expires_in,
     at |-> now]

\* the larger of two numbers
Max(a, b) == IF a >= b THEN a ELSE b

\* PairingManager::get_session_info behind pair_status_handler: the PIN and
\* the seconds remaining, not below 0, of a session that is in the map
pair_status_handler(p, sids) ==
    /\ pc[p] = "idle"
    /\ history.on
    /\ Len(history.reported) < MaxReports
    /\ \E sid \in sids :
         history' = [history EXCEPT !.reported = Append(@,
             IF sid \in DOMAIN sessions
             THEN Reported("status", sid, TRUE, sessions[sid].pin,
                           Max(sessions[sid].expires_at - now, 0))
             ELSE Reported("status", sid, FALSE, "none", 0))]
    /\ UNCHANGED <<restVars, inputVars, storeVars, authVars, pc, loc, gateVars, videoVars>>

\* PairingManager::get_qr_data: the QR code data, with the PIN, of a session
\* that is in the map
get_qr_data(p, sids) ==
    /\ pc[p] = "idle"
    /\ history.on
    /\ Len(history.reported) < MaxReports
    /\ \E sid \in sids :
         history' = [history EXCEPT !.reported = Append(@,
             IF sid \in DOMAIN sessions
             THEN Reported("qr", sid, TRUE, sessions[sid].pin, 0)
             ELSE Reported("qr", sid, FALSE, "none", 0))]
    /\ UNCHANGED <<restVars, inputVars, storeVars, authVars, pc, loc, gateVars, videoVars>>

\* PairingManager::revoke_device / DeviceStorage::remove_device, the
\* write-locked removal
revoke_device(p) ==
    /\ pc[p] = "idle"
    /\ \E id \in DeviceIds :
         IF id \notin DOMAIN devices
         THEN /\ Done(p)
              /\ UNCHANGED <<devices, revoked>>
         ELSE /\ devices' = MapRemove(devices, id)
              /\ revoked' = revoked \cup {id}
              /\ pc' = [pc EXCEPT ![p] = "rm_save"]
              /\ loc' = [loc EXCEPT ![p] = [NoLoc EXCEPT !.id = id]]
    /\ UNCHANGED <<restVars, histVars, inputVars, storeVars, now, ticks, sessions, nextSession, nextDevice, file, ioFailures,
                   responses, issued, gateVars, videoVars>>

\* DeviceStorage::remove_device after the removal
revoke_device_save(p) ==
    /\ pc[p] = "rm_save"
    /\ \/ /\ SaveOk
          /\ Done(p)
       \/ /\ SaveFails
          /\ Done(p)
    /\ UNCHANGED <<restVars, histVars, inputVars, storeVars, now, ticks, sessions, nextSession, devices, nextDevice,
                   responses, issued, revoked, gateVars, videoVars>>

(* ----------------- storage.rs: DeviceStorage, step by step ------------- *)

\* DeviceStorage::with_path: the map loaded from the file; a missing file and
\* one that does not parse both give an empty map
with_path(f) == IF f.kind = "json" THEN f.devices ELSE EmptyMap

\* no task holds the read lock of data, so a write lock can be taken
WriteLockFree == \A q \in Procs : writing[q].stage \notin {"locked", "open"}

\* the write lock is released and save() is called
CallSave(p, op, id) ==
    /\ pc' = [pc EXCEPT ![p] = "store"]
    /\ writing' = [writing EXCEPT ![p] = [NoWrite EXCEPT !.op = op, !.id = id, !.stage = "pending"]]

\* save() returns and with it the call
SaveReturns(p, res) ==
    /\ pc' = [pc EXCEPT ![p] = "idle"]
    /\ writing' = [writing EXCEPT ![p] = NoWrite]
    /\ history' = IF ~history.on THEN history
                   ELSE [history EXCEPT
                           !.last_write = res,
                           !.failed = IF res = "failed"
                                      THEN @ \cup {[op |-> writing[p].op, id |-> writing[p].id]}
                                      ELSE @]

\* DeviceStorage::save_device: insert under the write lock
save_device(p) ==
    /\ pc[p] = "idle"
    /\ WriteLockFree
    /\ \E id \in StoreIds :
         /\ devices' = MapPut(devices, id, DeviceNew(id, hash_token(id)))
         /\ CallSave(p, "save_device", id)
    /\ UNCHANGED <<restVars, now, ticks, sessions, nextSession, nextDevice, file, ioFailures, responses,
                   issued, revoked, loc, history, gateVars, videoVars, inputVars>>

\* a remove_device that changes the map and leaves the file alone
remove_device_without_save(p) ==
    /\ pc[p] = "idle"
    /\ WriteLockFree
    /\ \E id \in StoreIds :
         /\ id \in DOMAIN devices
         /\ devices' = MapRemove(devices, id)
    /\ UNCHANGED <<restVars, now, ticks, sessions, nextSession, nextDevice, file, ioFailures, responses,
                   issued, revoked, pc, loc, history, writing, gateVars, videoVars, inputVars>>

\* DeviceStorage::remove_device: remove under the write lock, NotFound
\* without a save when the id is not in the map
remove_device(p) ==
    /\ pc[p] = "idle"
    /\ WriteLockFree
    /\ \E id \in StoreIds :
         IF id \in DOMAIN devices
         THEN /\ devices' = MapRemove(devices, id)
              /\ CallSave(p, "remove_device", id)
         ELSE UNCHANGED <<devices, pc, writing>>
    /\ UNCHANGED <<restVars, now, ticks, sessions, nextSession, nextDevice, file, ioFailures, responses,
                   issued, revoked, loc, history, gateVars, videoVars, inputVars>>

\* DeviceStorage::touch_device: Device::touch under the write lock,
\* NotFound without a save when the id is not in the map
touch_device(p) ==
    /\ pc[p] = "idle"
    /\ WriteLockFree
    /\ \E id \in StoreIds :
         IF id \in DOMAIN devices
         THEN /\ devices' = [devices EXCEPT ![id].last_seen = now]
              /\ CallSave(p, "touch_device", id)
         ELSE UNCHANGED <<devices, pc, writing>>
    /\ UNCHANGED <<restVars, now, ticks, sessions, nextSession, nextDevice, file, ioFailures, responses,
                   issued, revoked, loc, history, gateVars, videoVars, inputVars>>

\* DeviceStorage::clear
clear(p) ==
    /\ pc[p] = "idle"
    /\ WriteLockFree
    /\ devices' = EmptyMap
    /\ CallSave(p, "clear", 0)
    /\ UNCHANGED <<restVars, now, ticks, sessions, nextSession, nextDevice, file, ioFailures, responses,
                   issued, revoked, loc, history, gateVars, videoVars, inputVars>>

\* DeviceStorage::save: the read lock is taken and the map serialized; the
\* lock is held until save returns
save_lock(p) ==
    /\ writing[p].stage = "pending"
    /\ writing' = [writing EXCEPT ![p].stage = "locked", ![p].json = devices]
    /\ UNCHANGED <<restVars, histVars, authVars, pc, loc, gateVars, videoVars, inputVars>>

\* std::fs::write opens the file, which truncates it, or fails to open it
save_open(p) ==
    /\ writing[p].stage = "locked"
    /\ \/ /\ file' = Corrupt
          /\ writing' = [writing EXCEPT ![p].stage = "open", ![p].old = file]
          /\ UNCHANGED <<ioFailures, history, pc>>
       \/ /\ ioFailures < MaxIoFailures
          /\ ioFailures' = ioFailures + 1
          /\ SaveReturns(p, "failed")
          /\ UNCHANGED file
    /\ UNCHANGED <<restVars, now, ticks, sessions, nextSession, devices, nextDevice, responses,
                   issued, revoked, loc, gateVars, videoVars, inputVars>>

\* a save that writes the entry of its own call and no other
save_write_own_entry(p) ==
    /\ writing[p].stage = "open"
    /\ file' = JsonFile([id \in DOMAIN writing[p].json \cap {writing[p].id} |-> writing[p].json[id]])
    /\ SaveReturns(p, "ok")
    /\ UNCHANGED <<restVars, now, ticks, sessions, nextSession, devices, nextDevice, ioFailures, responses,
                   issued, revoked, loc, gateVars, videoVars, inputVars>>

\* std::fs::write writes the serialized map and closes the file, or fails
\* after part of it
save_write(p) ==
    /\ writing[p].stage = "open"
    /\ \/ /\ file' = JsonFile(writing[p].json)
          /\ SaveReturns(p, "ok")
          /\ UNCHANGED ioFailures
       \/ /\ ioFailures < MaxIoFailures
          /\ ioFailures' = ioFailures + 1
          /\ file' = Corrupt
          /\ SaveReturns(p, "failed")
    /\ UNCHANGED <<restVars, now, ticks, sessions, nextSession, devices, nextDevice, responses,
                   issued, revoked, loc, gateVars, videoVars, inputVars>>

\* a start that writes the map it ends up with back to the file
restart_rewrites_file ==
    /\ pc' = [p \in Procs |-> "idle"]
    /\ loc' = [p \in Procs |-> NoLoc]
    /\ writing' = [p \in Procs |-> NoWrite]
    /\ sessions' = EmptyMap
    /\ devices' = with_path(file)
    /\ file' = JsonFile(with_path(file))
    /\ history' = [history EXCEPT !.last_write = "none", !.failed = {}]
    /\ UNCHANGED <<restVars, now, ticks, nextSession, nextDevice, ioFailures, responses,
                   issued, revoked, gateVars, videoVars, inputVars>>

\* the process is stopped, at any point, and started again: what was in
\* memory is gone and DeviceStorage::with_path loads the file
restart ==
    /\ pc' = [p \in Procs |-> "idle"]
    /\ loc' = [p \in Procs |-> NoLoc]
    /\ writing' = [p \in Procs |-> NoWrite]
    /\ sessions' = EmptyMap
    /\ devices' = with_path(file)
    /\ history' = [history EXCEPT !.last_write = "none", !.failed = {}]
    /\ UNCHANGED <<restVars, now, ticks, nextSession, nextDevice, file, ioFailures, responses,
                   issued, revoked, gateVars, videoVars, inputVars>>

(* --------------------- touch.rs: VirtualTouchscreen -------------------- *)

max_slots == 10
width == 1920
height == 1080
offset_x == 0
offset_y == 0

\* touch ids on the wire, and normalized coordinates (the corners)
TouchIds == {7, 9, 11, 101}
Coords == {0, 1}

\* slots of the active touches (used_slots)
UsedSlots == {active_touches[i] : i \in DOMAIN active_touches}

\* a find_free_slot that takes the highest free slot
find_free_slot_highest ==
    IF \E slot \in 0..(max_slots - 1) : slot \notin UsedSlots
    THEN CHOOSE slot \in 0..(max_slots - 1) :
             /\ slot \notin UsedSlots
             /\ \A other \in 0..(max_slots - 1) : other \notin UsedSlots => other <= slot
    ELSE -1

\* VirtualTouchscreen::find_free_slot: the first slot of 0..max_slots that
\* no active touch uses, -1 for None
find_free_slot ==
    IF \E slot \in 0..(max_slots - 1) : slot \notin UsedSlots
    THEN CHOOSE slot \in 0..(max_slots - 1) :
             /\ slot \notin UsedSlots
             /\ \A other \in 0..(max_slots - 1) : other \notin UsedSlots => slot <= other
    ELSE -1

\* VirtualTouchscreen::to_absolute
to_absolute(x, y) == <<x * width + offset_x, y * height + offset_y>>

\* the handler passes a batch to VirtualDevice::emit, which writes it to the
\* device or fails
Emit(op, id, slot, used, events) ==
    /\ touch_count' = touch_count + 1
    /\ \E ok \in BOOLEAN :
         emitted' = [op |-> op, id |-> id, slot |-> slot, used |-> used, events |-> events,
                     ok |-> ok]

\* the handler returns an error before it emits anything
InputError ==
    /\ touch_count' = touch_count + 1
    /\ UNCHANGED <<active_touches, next_tracking_id, emitted, tracked>>

\* VirtualTouchscreen::touch_start
touch_start(id) ==
    /\ touch_count < MaxTouchEvents
    /\ \E x \in Coords, y \in Coords :
         LET slot == find_free_slot
             abs == to_absolute(x, y)
         IN  IF slot = -1
             THEN InputError
             ELSE /\ next_tracking_id' = next_tracking_id + 1
                  /\ active_touches' = MapPut(active_touches, id, slot)
                  /\ tracked' = tracked \cup {slot}
                  /\ Emit("touch_start", id, slot, UsedSlots,
                          << <<"ABS_MT_SLOT", slot>>, <<"ABS_MT_TRACKING_ID", next_tracking_id>>,
                             <<"ABS_MT_POSITION_X", abs[1]>>, <<"ABS_MT_POSITION_Y", abs[2]>>,
                             <<"ABS_X", abs[1]>>, <<"ABS_Y", abs[2]>>,
                             <<"BTN_TOUCH", 1>>, <<"SYN", 0>> >>)
    /\ UNCHANGED <<restVars, authVars, pc, loc, gateVars, videoVars, histVars, storeVars>>

\* a touch_move that uses slot 0 for a touch id it does not know
touch_move_unknown_on_slot_0(id) ==
    /\ touch_count < MaxTouchEvents
    /\ \E x \in Coords, y \in Coords :
         LET abs == to_absolute(x, y)
             slot == IF id \in DOMAIN active_touches THEN active_touches[id] ELSE 0
         IN  /\ Emit("touch_move", id, slot, UsedSlots,
                     << <<"ABS_MT_SLOT", slot>>,
                        <<"ABS_MT_POSITION_X", abs[1]>>, <<"ABS_MT_POSITION_Y", abs[2]>>,
                        <<"ABS_X", abs[1]>>, <<"ABS_Y", abs[2]>>, <<"SYN", 0>> >>)
             /\ UNCHANGED <<active_touches, next_tracking_id, tracked>>
    /\ UNCHANGED <<restVars, authVars, pc, loc, gateVars, videoVars, histVars, storeVars>>

\* VirtualTouchscreen::touch_move
touch_move(id) ==
    /\ touch_count < MaxTouchEvents
    /\ \E x \in Coords, y \in Coords :
         LET abs == to_absolute(x, y)
         IN  IF id \notin DOMAIN active_touches
             THEN InputError
             ELSE /\ Emit("touch_move", id, active_touches[id], UsedSlots,
                          << <<"ABS_MT_SLOT", active_touches[id]>>,
                             <<"ABS_MT_POSITION_X", abs[1]>>, <<"ABS_MT_POSITION_Y", abs[2]>>,
                             <<"ABS_X", abs[1]>>, <<"ABS_Y", abs[2]>>, <<"SYN", 0>> >>)
                  /\ UNCHANGED <<active_touches, next_tracking_id, tracked>>
    /\ UNCHANGED <<restVars, authVars, pc, loc, gateVars, videoVars, histVars, storeVars>>

\* the body of touch_end with BTN_TOUCH up in every batch
touch_end_always_up(op, id) ==
    IF id \notin DOMAIN active_touches
    THEN InputError
    ELSE /\ active_touches' = MapRemove(active_touches, id)
         /\ tracked' = tracked \ {active_touches[id]}
         /\ Emit(op, id, active_touches[id], UsedSlots,
                 << <<"ABS_MT_SLOT", active_touches[id]>>, <<"ABS_MT_TRACKING_ID", -1>>,
                    <<"BTN_TOUCH", 0>>, <<"SYN", 0>> >>)
         /\ UNCHANGED next_tracking_id

\* the body of VirtualTouchscreen::touch_end, which touch_cancel calls too
touch_end_body(op, id) ==
    IF id \notin DOMAIN active_touches
    THEN InputError
    ELSE /\ active_touches' = MapRemove(active_touches, id)
         /\ tracked' = tracked \ {active_touches[id]}
         /\ Emit(op, id, active_touches[id], UsedSlots,
                 << <<"ABS_MT_SLOT", active_touches[id]>>, <<"ABS_MT_TRACKING_ID", -1>> >>
                 \o (IF MapRemove(active_touches, id) = EmptyMap
                     THEN << <<"BTN_TOUCH", 0>> >> ELSE <<>>)
                 \o << <<"SYN", 0>> >>)
         /\ UNCHANGED next_tracking_id

\* VirtualTouchscreen::touch_end
touch_end(id) ==
    /\ touch_count < MaxTouchEvents
    /\ touch_end_body("touch_end", id)
    /\ UNCHANGED <<restVars, authVars, pc, loc, gateVars, videoVars, histVars, storeVars>>

\* VirtualTouchscreen::touch_cancel
touch_cancel(id) ==
    /\ touch_count < MaxTouchEvents
    /\ touch_end_body("touch_cancel", id)
    /\ UNCHANGED <<restVars, authVars, pc, loc, gateVars, videoVars, histVars, storeVars>>

(* ---------------------- stylus.rs: VirtualStylus ----------------------- *)

MAX_PRESSURE == 4095
RESOLUTION == 10
HOVER_DISTANCE == 50
MAX_TILT == 90

PenButtons == {"Primary", "Secondary", "Tertiary", "Eraser"}

\* pen samples on the wire: normalized position and pressure, tilt in degrees
PenSamples ==
    {[x |-> 0, y |-> 0, pressure |-> 0, tilt_x |-> 0, tilt_y |-> 0],
     [x |-> 1, y |-> 1, pressure |-> 1, tilt_x |-> 100, tilt_y |-> -100]}

\* VirtualStylus::to_absolute
stylus_to_absolute(x, y) ==
    <<(x * width + offset_x) * RESOLUTION, (y * height + offset_y) * RESOLUTION>>

Clamp(v, lo, hi) == IF v < lo THEN lo ELSE IF v > hi THEN hi ELSE v

\* VirtualStylus::to_pressure
to_pressure(pressure) == Clamp(Clamp(pressure, 0, 1) * MAX_PRESSURE, 0, MAX_PRESSURE)

\* VirtualStylus::to_tilt
to_tilt(tilt) == Clamp(tilt, -MAX_TILT, MAX_TILT)

\* the key of the tool that eraser_mode selects
ToolKey(eraser_mode) == IF eraser_mode THEN "BTN_TOOL_RUBBER" ELSE "BTN_TOOL_PEN"

RECURSIVE KeysAfter(_, _)
\* the values of the keys of the device once it has taken the events in order
KeysAfter(keys, events) ==
    IF events = <<>> THEN keys
    ELSE KeysAfter(IF Head(events)[1] \in StylusKeys
                   THEN [keys EXCEPT ![Head(events)[1]] = Head(events)[2]]
                   ELSE keys,
                   Tail(events))

\* the handler passes a batch to VirtualDevice::emit, which writes it to the
\* device or fails
StylusEmit(op, button, events) ==
    /\ stylus_count' = stylus_count + 1
    /\ \E ok \in BOOLEAN :
         stylus_emitted' = [op |-> op, button |-> button, was |-> stylus, events |-> events,
                            ok |-> ok,
                            keys |-> IF ok THEN KeysAfter(stylus_emitted.keys, events)
                                     ELSE stylus_emitted.keys,
                            failed |-> stylus_emitted.failed \/ ~ok]

\* the handler returns Ok without emitting anything
StylusNothing ==
    /\ stylus_count' = stylus_count + 1
    /\ UNCHANGED <<stylus, stylus_emitted>>

\* the body of VirtualStylus::pen_hover, which pen_move calls too
pen_hover_body(op, s) ==
    LET abs == stylus_to_absolute(s.x, s.y)
    IN  /\ stylus' = [stylus EXCEPT !.in_range = TRUE]
        /\ StylusEmit(op, "none",
               (IF ~stylus.in_range THEN << <<ToolKey(stylus.eraser_mode), 1>> >> ELSE <<>>)
               \o << <<"ABS_X", abs[1]>>, <<"ABS_Y", abs[2]>>, <<"ABS_PRESSURE", 0>>,
                     <<"ABS_TILT_X", to_tilt(s.tilt_x)>>, <<"ABS_TILT_Y", to_tilt(s.tilt_y)>>,
                     <<"ABS_DISTANCE", HOVER_DISTANCE>>, <<"SYN", 0>> >>)

\* VirtualStylus::pen_hover
pen_hover ==
    /\ stylus_count < MaxStylusEvents
    /\ \E s \in PenSamples : pen_hover_body("pen_hover", s)
    /\ UNCHANGED <<authVars, pc, loc, gateVars, videoVars, histVars, inputVars, storeVars,
                   captureVars, encVars, tlsVars, deskVars>>

\* the events of pen_down with the key of the new tool raised before the key
\* of the outgoing one is zeroed
pen_down_events_enter_first(s, new_eraser_mode) ==
    LET abs == stylus_to_absolute(s.x, s.y)
    IN  << <<ToolKey(new_eraser_mode), 1>> >>
        \o (IF new_eraser_mode # stylus.eraser_mode /\ stylus.in_range
            THEN << <<ToolKey(stylus.eraser_mode), 0>> >> ELSE <<>>)
        \o << <<"ABS_X", abs[1]>>, <<"ABS_Y", abs[2]>>,
              <<"ABS_PRESSURE", to_pressure(s.pressure)>>,
              <<"ABS_TILT_X", to_tilt(s.tilt_x)>>, <<"ABS_TILT_Y", to_tilt(s.tilt_y)>>,
              <<"ABS_DISTANCE", 0>>, <<"BTN_TOUCH", 1>>, <<"SYN", 0>> >>

\* the events of pen_down without the key of the outgoing tool
pen_down_events_keep_outgoing(s, new_eraser_mode) ==
    LET abs == stylus_to_absolute(s.x, s.y)
    IN  << <<ToolKey(new_eraser_mode), 1>> >>
        \o << <<"ABS_X", abs[1]>>, <<"ABS_Y", abs[2]>>,
              <<"ABS_PRESSURE", to_pressure(s.pressure)>>,
              <<"ABS_TILT_X", to_tilt(s.tilt_x)>>, <<"ABS_TILT_Y", to_tilt(s.tilt_y)>>,
              <<"ABS_DISTANCE", 0>>, <<"BTN_TOUCH", 1>>, <<"SYN", 0>> >>

\* the events VirtualStylus::pen_down collects
pen_down_events(s, new_eraser_mode) ==
    LET abs == stylus_to_absolute(s.x, s.y)
    IN  (IF new_eraser_mode # stylus.eraser_mode /\ stylus.in_range
         THEN << <<ToolKey(stylus.eraser_mode), 0>> >> ELSE <<>>)
        \o << <<ToolKey(new_eraser_mode), 1>> >>
        \o << <<"ABS_X", abs[1]>>, <<"ABS_Y", abs[2]>>,
              <<"ABS_PRESSURE", to_pressure(s.pressure)>>,
              <<"ABS_TILT_X", to_tilt(s.tilt_x)>>, <<"ABS_TILT_Y", to_tilt(s.tilt_y)>>,
              <<"ABS_DISTANCE", 0>>, <<"BTN_TOUCH", 1>>, <<"SYN", 0>> >>

\* VirtualStylus::pen_down
pen_down ==
    /\ stylus_count < MaxStylusEvents
    /\ \E s \in PenSamples, button \in PenButtons :
         LET new_eraser_mode == button = "Eraser"
         IN  /\ stylus' = [stylus EXCEPT !.eraser_mode = new_eraser_mode, !.in_range = TRUE,
                                         !.tip_down = TRUE]
             /\ StylusEmit("pen_down", button, pen_down_events(s, new_eraser_mode))
    /\ UNCHANGED <<authVars, pc, loc, gateVars, videoVars, histVars, inputVars, storeVars,
                   captureVars, encVars, tlsVars, deskVars>>

\* VirtualStylus::pen_move
pen_move ==
    /\ stylus_count < MaxStylusEvents
    /\ \E s \in PenSamples :
         LET abs == stylus_to_absolute(s.x, s.y)
         IN  IF ~stylus.tip_down
             THEN pen_hover_body("pen_move", s)
             ELSE /\ StylusEmit("pen_move", "none",
                         << <<"ABS_X", abs[1]>>, <<"ABS_Y", abs[2]>>,
                            <<"ABS_PRESSURE", to_pressure(s.pressure)>>,
                            <<"ABS_TILT_X", to_tilt(s.tilt_x)>>,
                            <<"ABS_TILT_Y", to_tilt(s.tilt_y)>>, <<"SYN", 0>> >>)
                  /\ UNCHANGED stylus
    /\ UNCHANGED <<authVars, pc, loc, gateVars, videoVars, histVars, inputVars, storeVars,
                   captureVars, encVars, tlsVars, deskVars>>

\* a pen_up that emits its batch whatever the state of the tip
pen_up_in_any_state ==
    /\ stylus_count < MaxStylusEvents
    /\ \E s \in PenSamples :
         LET abs == stylus_to_absolute(s.x, s.y)
         IN  /\ stylus' = [stylus EXCEPT !.tip_down = FALSE]
             /\ StylusEmit("pen_up", "none",
                    << <<"ABS_X", abs[1]>>, <<"ABS_Y", abs[2]>>, <<"ABS_PRESSURE", 0>>,
                       <<"ABS_DISTANCE", HOVER_DISTANCE>>, <<"BTN_TOUCH", 0>>,
                       <<"SYN", 0>> >>)
    /\ UNCHANGED <<authVars, pc, loc, gateVars, videoVars, histVars, inputVars, storeVars,
                   captureVars, encVars, tlsVars, deskVars>>

\* VirtualStylus::pen_up
pen_up ==
    /\ stylus_count < MaxStylusEvents
    /\ \E s \in PenSamples :
         LET abs == stylus_to_absolute(s.x, s.y)
         IN  IF ~stylus.tip_down
             THEN StylusNothing
             ELSE /\ stylus' = [stylus EXCEPT !.tip_down = FALSE]
                  /\ StylusEmit("pen_up", "none",
                         << <<"ABS_X", abs[1]>>, <<"ABS_Y", abs[2]>>, <<"ABS_PRESSURE", 0>>,
                            <<"ABS_DISTANCE", HOVER_DISTANCE>>, <<"BTN_TOUCH", 0>>,
                            <<"SYN", 0>> >>)
    /\ UNCHANGED <<authVars, pc, loc, gateVars, videoVars, histVars, inputVars, storeVars,
                   captureVars, encVars, tlsVars, deskVars>>

\* VirtualStylus::pen_leave
pen_leave ==
    /\ stylus_count < MaxStylusEvents
    /\ IF ~stylus.in_range
       THEN StylusNothing
       ELSE /\ stylus' = [stylus EXCEPT !.in_range = FALSE, !.tip_down = FALSE,
                                        !.stylus_button1 = FALSE, !.stylus_button2 = FALSE]
            /\ StylusEmit("pen_leave", "none",
                   (IF stylus.tip_down THEN << <<"BTN_TOUCH", 0>> >> ELSE <<>>)
                   \o (IF stylus.stylus_button1 THEN << <<"BTN_STYLUS", 0>> >> ELSE <<>>)
                   \o (IF stylus.stylus_button2 THEN << <<"BTN_STYLUS2", 0>> >> ELSE <<>>)
                   \o << <<ToolKey(stylus.eraser_mode), 0>>, <<"SYN", 0>> >>)
    /\ UNCHANGED <<authVars, pc, loc, gateVars, videoVars, histVars, inputVars, storeVars,
                   captureVars, encVars, tlsVars, deskVars>>

\* VirtualStylus::pen_button
pen_button ==
    /\ stylus_count < MaxStylusEvents
    /\ \E button \in PenButtons, pressed \in BOOLEAN :
         LET held == IF button = "Secondary" THEN stylus.stylus_button1
                     ELSE stylus.stylus_button2
         IN  IF button \in {"Primary", "Eraser"} \/ held = pressed
             THEN StylusNothing
             ELSE /\ stylus' = IF button = "Secondary"
                               THEN [stylus EXCEPT !.stylus_button1 = pressed]
                               ELSE [stylus EXCEPT !.stylus_button2 = pressed]
                  /\ StylusEmit("pen_button", button,
                         << <<IF button = "Secondary" THEN "BTN_STYLUS" ELSE "BTN_STYLUS2",
                              IF pressed THEN 1 ELSE 0>>, <<"SYN", 0>> >>)
    /\ UNCHANGED <<authVars, pc, loc, gateVars, videoVars, histVars, inputVars, storeVars,
                   captureVars, encVars, tlsVars, deskVars>>

(* ------------------ tls.rs: CertificateManager ------------------------- *)

CERT_VALIDITY_DAYS == 365
CERT_RENEWAL_THRESHOLD_DAYS == 30

\* Duration::days(d), in seconds
Days(d) == d * 86400

\* host names: "localhost" and two addresses the machine may have
LOCALHOST == 1
LocalIps == {LOCALHOST, 2, 3}

\* the lists load_or_generate is called with: main passes the local address
\* (or "localhost" if there is none) and "localhost", the test the reverse
HostnameLists ==
    {<<ip, LOCALHOST>> : ip \in LocalIps} \cup {<<LOCALHOST, ip>> : ip \in LocalIps}

\* the clock advances by a second or by 335 days, the time after which a new
\* certificate has CERT_RENEWAL_THRESHOLD_DAYS left
CertClockSteps == {1, Days(CERT_VALIDITY_DAYS - CERT_RENEWAL_THRESHOLD_DAYS)}

\* generate_self_signed_cert: the n-th key pair generated and the certificate
\* signed with it; the PEMs of different key pairs differ
CertPem(n) == n
KeyPem(n) == n

\* the private key that belongs to a certificate
KeyOfCert(cert_pem) == KeyPem(cert_pem)

\* calculate_cert_fingerprint: the hex of SHA-256 of the PEM; a digest is not
\* the PEM, and two PEMs have different digests
calculate_cert_fingerprint(cert_pem) == 256 + cert_pem

\* Vec::sort
SortedHostnames(hostnames) == SortSeq(hostnames, LAMBDA a, b : a < b)

\* an is_certificate_valid that compares the lists as they are
is_certificate_valid_unsorted(meta, hostnames) ==
    /\ ~(meta.expires_at - now < Days(CERT_RENEWAL_THRESHOLD_DAYS))
    /\ hostnames = meta.hostnames

\* CertificateManager::is_certificate_valid
is_certificate_valid(meta, hostnames) ==
    /\ ~(meta.expires_at - now < Days(CERT_RENEWAL_THRESHOLD_DAYS))
    /\ SortedHostnames(hostnames) = SortedHostnames(meta.hostnames)

\* the files of the configuration directory as a call finds them
FoundFiles == [cert |-> cert_file, key |-> key_file, meta |-> meta_file, gen |-> tls_gen]

\* CertificateManager::load_or_generate up to the first write: the stored
\* certificate is returned, or a new one is generated
load_or_generate(hostnames) ==
    /\ tls_pc = "idle"
    /\ IF /\ cert_file # 0 /\ key_file # 0
          /\ meta_file.kind = "json"
          /\ is_certificate_valid(meta_file, hostnames)
       THEN /\ tls_ret' = [res |-> "ok", cert |-> cert_file, key |-> key_file,
                           fingerprint |-> meta_file.fingerprint, hostnames |-> hostnames,
                           found |-> FoundFiles, at |-> now, generated |-> FALSE]
            /\ UNCHANGED <<tls_pc, tls_gen>>
       ELSE /\ tls_gen < MaxCerts
            /\ tls_gen' = tls_gen + 1
            /\ tls_ret' = [res |-> "none", cert |-> CertPem(tls_gen + 1),
                           key |-> KeyPem(tls_gen + 1),
                           fingerprint |-> calculate_cert_fingerprint(CertPem(tls_gen + 1)),
                           hostnames |-> hostnames, found |-> FoundFiles, at |-> now,
                           generated |-> TRUE]
            /\ tls_pc' = "write_cert"
    /\ UNCHANGED <<authVars, pc, loc, gateVars, videoVars, histVars, inputVars, storeVars,
                   captureVars, encVars, stylusVars, deskVars, cert_file, key_file, meta_file>>

\* a std::fs::write of generate_and_save fails: the error is returned
generate_write_fails ==
    /\ tls_pc \in {"write_cert", "write_key", "write_meta"}
    /\ tls_ret' = [tls_ret EXCEPT !.res = "err"]
    /\ tls_pc' = "idle"
    /\ UNCHANGED <<authVars, pc, loc, gateVars, videoVars, histVars, inputVars, storeVars,
                   captureVars, encVars, stylusVars, deskVars, cert_file, key_file, meta_file, tls_gen>>

\* generate_and_save: std::fs::write(self.cert_path(), &cert_pem)
generate_write_cert ==
    /\ tls_pc = "write_cert"
    /\ cert_file' = tls_ret.cert
    /\ tls_pc' = "write_key"
    /\ UNCHANGED <<authVars, pc, loc, gateVars, videoVars, histVars, inputVars, storeVars,
                   captureVars, encVars, stylusVars, deskVars, key_file, meta_file, tls_ret, tls_gen>>

\* generate_and_save: std::fs::write(self.key_path(), &key_pem)
generate_write_key ==
    /\ tls_pc = "write_key"
    /\ key_file' = tls_ret.key
    /\ tls_pc' = "write_meta"
    /\ UNCHANGED <<authVars, pc, loc, gateVars, videoVars, histVars, inputVars, storeVars,
                   captureVars, encVars, stylusVars, deskVars, cert_file, meta_file, tls_ret, tls_gen>>

\* generate_and_save: save_metadata, and the return of the new certificate
generate_save_metadata ==
    /\ tls_pc = "write_meta"
    /\ meta_file' = [kind |-> "json", expires_at |-> now + Days(CERT_VALIDITY_DAYS),
                     fingerprint |-> tls_ret.fingerprint, hostnames |-> tls_ret.hostnames]
    /\ tls_ret' = [tls_ret EXCEPT !.res = "ok"]
    /\ tls_pc' = "idle"
    /\ UNCHANGED <<authVars, pc, loc, gateVars, videoVars, histVars, inputVars, storeVars,
                   captureVars, encVars, stylusVars, deskVars, cert_file, key_file, tls_gen>>

\* the process is stopped in generate_and_save between two writes
generate_interrupted ==
    /\ tls_pc \in {"write_key", "write_meta"}
    /\ tls_ret' = [tls_ret EXCEPT !.res = "interrupted"]
    /\ tls_pc' = "idle"
    /\ UNCHANGED <<authVars, pc, loc, gateVars, videoVars, histVars, inputVars, storeVars,
                   captureVars, encVars, stylusVars, deskVars, cert_file, key_file, meta_file, tls_gen>>

\* time passes between two runs of the program
cert_clock ==
    /\ tls_pc = "idle"
    /\ ticks < MaxCertTicks
    /\ \E d \in CertClockSteps : now' = now + d
    /\ ticks' = ticks + 1
    /\ UNCHANGED <<sessions, nextSession, devices, nextDevice, file, ioFailures, responses,
                   issued, revoked, pc, loc, gateVars, videoVars, histVars, inputVars,
                   storeVars, restVars>>

(* ------------------- broadcast.rs / websocket.rs ----------------------- *)

\* a validate_token whose auth_required test is inverted
AppStateValidateTokenInverted(token) ==
    IF auth_required THEN TRUE ELSE validate_token(token) # {}

\* AppState::validate_token
AppStateValidateToken(token) ==
    IF ~auth_required THEN TRUE ELSE validate_token(token) # {}

ConnRecord(kind, token, valid, status) ==
    [kind |-> kind, token |-> token, valid |-> valid, status |-> status]

\* video_ws_handler / input_ws_handler up to the token check: a request with
\* the token it presents (query parameter or Bearer header, NoToken if none)
ws_handler(p, kind, tokens) ==
    /\ pc[p] = "idle"
    /\ main_pc = "serving"
    /\ Len(conns) < MaxConns
    /\ \E tok \in {NoToken} \cup tokens :
         LET c == Len(conns) + 1
             valid == validate_token(tok) # {}
         IN IF auth_required
            THEN IF tok = NoToken \/ ~AppStateValidateToken(tok)
                 THEN /\ conns' = Append(conns, ConnRecord(kind, tok, valid, 401))
                      /\ Done(p)
                 ELSE /\ conns' = Append(conns, ConnRecord(kind, tok, valid, 0))
                      /\ pc' = [pc EXCEPT ![p] = "ws_touch"]
                      /\ loc' = [loc EXCEPT ![p] = [NoLoc EXCEPT !.token = tok, !.conn = c]]
            ELSE /\ conns' = Append(conns, ConnRecord(kind, tok, valid, 0))
                 /\ pc' = [pc EXCEPT ![p] = "ws_upgrade"]
                 /\ loc' = [loc EXCEPT ![p] = [NoLoc EXCEPT !.token = tok, !.conn = c]]
    /\ UNCHANGED <<restVars, histVars, inputVars, storeVars, authVars, auth_required, subscribed, input_q, videoVars>>

\* video_ws_handler
video_ws_handler(p, tokens) == ws_handler(p, "video", tokens)

\* input_ws_handler
input_ws_handler(p, tokens) == ws_handler(p, "input", tokens)

\* PairingManager::touch_device: validate_token, then look the device up
touch_device_validate(p) ==
    /\ pc[p] = "ws_touch"
    /\ IF validate_token(loc[p].token) = {}
       THEN pc' = [pc EXCEPT ![p] = "ws_upgrade"] /\ UNCHANGED loc
       ELSE \E d \in validate_token(loc[p].token) :
              /\ pc' = [pc EXCEPT ![p] = "ws_touch_mut"]
              /\ loc' = [loc EXCEPT ![p].id = d.id]
    /\ UNCHANGED <<restVars, histVars, inputVars, storeVars, authVars, gateVars, videoVars>>

\* a touch_device that stores the device it looked up back into the map
touch_device_mut_upsert(p) ==
    /\ pc[p] = "ws_touch_mut"
    /\ devices' = MapPut(devices, loc[p].id, DeviceNew(loc[p].id, hash_token(loc[p].token)))
    /\ pc' = [pc EXCEPT ![p] = "ws_touch_save"]
    /\ UNCHANGED <<restVars, histVars, inputVars, storeVars, now, ticks, sessions, nextSession, nextDevice, file, ioFailures,
                   responses, issued, revoked, loc, gateVars, videoVars>>

\* DeviceStorage::touch_device, the write-locked update
touch_device_mut(p) ==
    /\ pc[p] = "ws_touch_mut"
    /\ IF loc[p].id \in DOMAIN devices
       THEN /\ devices' = [devices EXCEPT ![loc[p].id].last_seen = now]
            /\ pc' = [pc EXCEPT ![p] = "ws_touch_save"]
       ELSE /\ pc' = [pc EXCEPT ![p] = "ws_upgrade"]
            /\ UNCHANGED devices
    /\ UNCHANGED <<restVars, histVars, inputVars, storeVars, now, ticks, sessions, nextSession, nextDevice, file, ioFailures,
                   responses, issued, revoked, loc, gateVars, videoVars>>

\* DeviceStorage::touch_device after the update; the handler drops the result
touch_device_save(p) ==
    /\ pc[p] = "ws_touch_save"
    /\ SaveOk \/ SaveFails
    /\ pc' = [pc EXCEPT ![p] = "ws_upgrade"]
    /\ UNCHANGED <<restVars, histVars, inputVars, storeVars, now, ticks, sessions, nextSession, devices, nextDevice,
                   responses, issued, revoked, loc, gateVars, videoVars>>

\* ws.on_upgrade: the request is answered 101 and the socket task starts
ws_upgrade(p) ==
    /\ pc[p] = "ws_upgrade"
    /\ conns' = [conns EXCEPT ![loc[p].conn].status = 101]
    /\ pc' = [pc EXCEPT ![p] = IF conns[loc[p].conn].kind = "video"
                                THEN "vs_subscribe" ELSE "is_loop"]
    /\ UNCHANGED <<restVars, histVars, inputVars, storeVars, authVars, loc, auth_required, subscribed, input_q, videoVars>>

\* handle_input_socket: one message read from the socket. A text message
\* that parses is sent on input_tx, one that does not is logged
input_socket_recv(p) ==
    /\ pc[p] = "is_loop"
    /\ \/ /\ Len(input_q) < MaxInputMsgs
          /\ input_q' = Append(input_q, [conn |-> loc[p].conn, n |-> Len(input_q) + 1])
          /\ UNCHANGED <<pc, loc>>
       \/ /\ UNCHANGED <<input_q, pc, loc>>
       \/ /\ Done(p)
          /\ UNCHANGED input_q
    /\ UNCHANGED <<restVars, histVars, inputVars, storeVars, authVars, auth_required, conns, subscribed, videoVars>>

(* ------------------ main.rs / pipeline.rs: start-up -------------------- *)

\* encoder thread: EncodingPipeline::new
encoder_new ==
    /\ enc_pc = "new"
    /\ \/ enc_pc' = "send_init"
       \/ enc_pc' = "failed"
    /\ UNCHANGED <<restVars, histVars, inputVars, storeVars, authVars, pc, loc, gateVars, main_pc, init_rx, init_segment,
                   keyframe_segment, published, frame_seq, sequence_number, kf_rx, viewer>>

\* encoder thread: init_tx.send of the init segment and codec info
encoder_send_init ==
    /\ enc_pc = "send_init"
    /\ enc_pc' = "run"
    /\ init_rx' = IF init_rx = 0 THEN 1 ELSE init_rx
    /\ UNCHANGED <<restVars, histVars, inputVars, storeVars, authVars, pc, loc, gateVars, main_pc, init_segment,
                   keyframe_segment, published, frame_seq, sequence_number, kf_rx, viewer>>

\* main: init_rx.recv_timeout(5 s) returns the message
main_recv_init ==
    /\ main_pc = "wait_init"
    /\ init_rx = 1
    /\ init_rx' = 2
    /\ init_segment' = TRUE
    /\ main_pc' = "subscribe_kf"
    /\ UNCHANGED <<restVars, histVars, inputVars, storeVars, authVars, pc, loc, gateVars, enc_pc,
                   keyframe_segment, published, frame_seq, sequence_number, kf_rx, viewer>>

\* main: init_rx.recv_timeout(5 s) gives up (no message in time, or the
\* encoder thread is gone)
main_init_timeout ==
    /\ main_pc = "wait_init"
    /\ init_rx = 0
    /\ init_rx' = 2
    /\ main_pc' = "subscribe_kf"
    /\ UNCHANGED <<restVars, histVars, inputVars, storeVars, authVars, pc, loc, gateVars, enc_pc, init_segment,
                   keyframe_segment, published, frame_seq, sequence_number, kf_rx, viewer>>

\* main: segment_tx.subscribe() for the keyframe task, then the server starts
main_subscribe_keyframe ==
    /\ main_pc = "subscribe_kf"
    /\ kf_rx' = [next |-> Len(published), alive |-> TRUE]
    /\ main_pc' = "serving"
    /\ UNCHANGED <<restVars, histVars, inputVars, storeVars, authVars, pc, loc, gateVars, enc_pc, init_rx, init_segment,
                   keyframe_segment, published, frame_seq, sequence_number, viewer>>

(* ------------------------- pipeline.rs --------------------------------- *)

\* Fmp4Muxer::create_media_segment: the moof of the segment carries the
\* muxer's sequence_number in its mfhd box
create_media_segment == [mfhd |-> sequence_number]

StreamSegment(sequence, is_keyframe) ==
    [sequence |-> sequence, is_keyframe |-> is_keyframe, data |-> create_media_segment]

Keyframes == {i \in 1..Len(published) : published[i].is_keyframe}

\* a pipeline whose send waits until every viewer has room for the segment
pipeline_run_waits_for_viewers(maxFrames, maxKeyframes) ==
    /\ enc_pc = "run"
    /\ frame_seq < maxFrames
    /\ \A p \in Procs : pc[p] = "vs_loop" => Len(published) - viewer[p].next < SEGMENT_CAPACITY
    /\ frame_seq' = frame_seq + 1
    /\ \/ /\ Cardinality(Keyframes) < maxKeyframes
          /\ published' = Append(published, StreamSegment(frame_seq + 1, TRUE))
       \/ published' = Append(published, StreamSegment(frame_seq + 1, FALSE))
    /\ sequence_number' = sequence_number + 1
    /\ frame_count' = frame_count + 1
    /\ UNCHANGED <<captureVars, stylusVars, tlsVars, deskVars, encoded, histVars, inputVars, storeVars, authVars, pc, loc, gateVars, main_pc, enc_pc, init_rx, init_segment,
                   keyframe_segment, kf_rx, viewer>>

\* EncodingPipeline::run, one frame whose encode succeeds: encode_frame and
\* segment_tx.send. The encoder output holds an IDR or SPS unit, or none
pipeline_run(maxFrames, maxKeyframes) ==
    /\ enc_pc = "run"
    /\ frame_seq < maxFrames
    /\ frame_seq' = frame_seq + 1
    /\ \/ /\ Cardinality(Keyframes) < maxKeyframes
          /\ published' = Append(published, StreamSegment(frame_seq + 1, TRUE))
       \/ published' = Append(published, StreamSegment(frame_seq + 1, FALSE))
    /\ sequence_number' = sequence_number + 1
    /\ frame_count' = frame_count + 1
    /\ UNCHANGED <<captureVars, stylusVars, tlsVars, deskVars, encoded, histVars, inputVars, storeVars, authVars, pc, loc, gateVars, main_pc, enc_pc, init_rx, init_segment,
                   keyframe_segment, kf_rx, viewer>>

\* EncodingPipeline::run, one frame whose encode fails: it is logged and
\* nothing is sent
pipeline_run_error(maxFrames, maxErrors) ==
    /\ enc_pc = "run"
    /\ frame_seq < maxFrames
    /\ frame_seq - Len(published) < maxErrors
    /\ frame_seq' = frame_seq + 1
    /\ UNCHANGED <<restVars, histVars, inputVars, storeVars, authVars, pc, loc, gateVars, main_pc, enc_pc, init_rx, init_segment,
                   keyframe_segment, published, kf_rx, viewer, sequence_number>>

(* -------------- encoder.rs: H264Encoder, byte by byte ------------------ *)

\* a NAL unit as the encoder writes it: a start code of 3 or 4 bytes, the
\* header byte and the payload (which holds no start code)
Nal(start, header, payload) == [start |-> start, header |-> header, payload |-> payload]

\* the bytes of one NAL unit
NalBytes(n) == (IF n.start = 4 THEN <<0, 0, 0, 1>> ELSE <<0, 0, 1>>) \o <<n.header>> \o n.payload

RECURSIVE Bitstream(_)
\* EncodedFrameInfo::to_vec: the units one after the other
Bitstream(units) ==
    IF units = <<>> THEN <<>> ELSE NalBytes(Head(units)) \o Bitstream(Tail(units))

\* what the encoder may return for a frame: an IDR picture with its parameter
\* sets, an IDR picture alone, parameter sets alone, a non-IDR picture, with
\* either start code, and a picture whose header is the last byte
EncoderOutputs ==
    { << Nal(4, 103, <<66, 192>>), Nal(4, 104, <<206>>), Nal(4, 101, <<136, 132>>) >>,
      << Nal(3, 37, <<136>>) >>,
      << Nal(4, 101, <<>>) >>,
      << Nal(3, 103, <<66>>), Nal(3, 104, <<206>>) >>,
      << Nal(4, 65, <<154, 2>>) >>,
      << Nal(3, 33, <<154>>) >>,
      << Nal(4, 6, <<5>>), Nal(4, 65, <<154>>) >> }

\* nal_type of a header byte: header & 0x1F
NalType(header) == header % 32

\* H264Encoder::check_keyframe: the two scans for start codes; the bounds of
\* the loops leave a byte after each start code found
check_keyframe(bytes) ==
    LET n == Len(bytes)
        at4 == {i \in 1..(n - 4) : /\ bytes[i] = 0 /\ bytes[i + 1] = 0
                                   /\ bytes[i + 2] = 0 /\ bytes[i + 3] = 1}
        at3 == {i \in 1..(n - 3) : /\ bytes[i] = 0 /\ bytes[i + 1] = 0 /\ bytes[i + 2] = 1
                                   /\ (i = 1 \/ bytes[i - 1] # 0)}
        types == {NalType(bytes[i + 4]) : i \in at4} \cup {NalType(bytes[i + 3]) : i \in at3}
    IN  5 \in types \/ 7 \in types

\* H264Encoder::encode that returns Ok: the EncodedFrame
EncodedFrame(units) ==
    [res |-> "ok", data |-> Bitstream(units), pts |-> frame_count,
     is_keyframe |-> check_keyframe(Bitstream(units))]

\* H264Encoder::encode that returns Err
EncodeError == [NoEncoded EXCEPT !.res = "err"]

\* EncodingPipeline::encode_frame that returns Ok: the segment, whose mdat
\* holds the units of the encoder output
MediaSegment(sequence, units) ==
    [sequence |-> sequence, is_keyframe |-> EncodedFrame(units).is_keyframe,
     data |-> [mfhd |-> sequence_number, nals |-> units]]

(* ------------------- main.rs: the capture thread ----------------------- *)

FRAME_CAPACITY == 2

\* VirtualDisplay::new, enable and init_buffer: the thread goes on to its
\* loop, or returns when one of them fails
capture_setup ==
    /\ cap_pc = "setup"
    /\ cap_pc' \in {"loop", "exited"}
    /\ UNCHANGED <<authVars, pc, loc, gateVars, videoVars, histVars, inputVars, storeVars,
                   cap_fatal, captured, frame_q, encVars, stylusVars, tlsVars, deskVars>>

\* the capture source fails for good: every capture from now on is an error
capture_source_fails ==
    /\ cap_pc \in {"loop", "sleep"}
    /\ ~cap_fatal
    /\ cap_fatal' = TRUE
    /\ UNCHANGED <<authVars, pc, loc, gateVars, videoVars, histVars, inputVars, storeVars,
                   cap_pc, captured, frame_q, encVars, stylusVars, tlsVars, deskVars>>

\* the capture loop, capture_async returns a frame: frame_tx.send, which
\* waits for room and fails when the receiver is gone
capture_frame ==
    /\ cap_pc = "loop"
    /\ ~cap_fatal
    /\ captured < MaxCaptured
    /\ IF enc_pc \in {"failed", "stopped"}
       THEN /\ cap_pc' = "exited"
            /\ UNCHANGED frame_q
       ELSE /\ Len(frame_q) < FRAME_CAPACITY
            /\ frame_q' = Append(frame_q, captured + 1)
            /\ cap_pc' = "sleep"
    /\ captured' = captured + 1
    /\ UNCHANGED <<authVars, pc, loc, gateVars, videoVars, histVars, inputVars, storeVars,
                   cap_fatal, encVars, stylusVars, tlsVars, deskVars>>

\* the capture loop, capture_async returns an error: it is logged
capture_error ==
    /\ cap_pc = "loop"
    /\ cap_pc' = "sleep"
    /\ UNCHANGED <<authVars, pc, loc, gateVars, videoVars, histVars, inputVars, storeVars,
                   cap_fatal, captured, frame_q, encVars, stylusVars, tlsVars, deskVars>>

\* the capture loop: the sleep that keeps the frame rate, then the next turn
capture_sleep ==
    /\ cap_pc = "sleep"
    /\ cap_pc' = "loop"
    /\ UNCHANGED <<authVars, pc, loc, gateVars, videoVars, histVars, inputVars, storeVars,
                   cap_fatal, captured, frame_q, encVars, stylusVars, tlsVars, deskVars>>

(* ------------- pipeline.rs: EncodingPipeline::run on frame_rx ---------- *)

\* an encode_frame that runs the muxer before it looks at the encoder's result
pipeline_frame_muxes_before_result ==
    /\ enc_pc = "run"
    /\ frame_q # <<>>
    /\ frame_q' = Tail(frame_q)
    /\ frame_seq' = Head(frame_q)
    /\ sequence_number' = sequence_number + 1
    /\ \/ \E units \in EncoderOutputs :
            /\ encoded' = EncodedFrame(units)
            /\ frame_count' = frame_count + 1
            /\ published' = Append(published, MediaSegment(Head(frame_q), units))
       \/ /\ encoded' = EncodeError
          /\ UNCHANGED <<frame_count, published>>
    /\ UNCHANGED <<authVars, pc, loc, gateVars, histVars, inputVars, storeVars, cap_pc, cap_fatal,
                   captured, stylusVars, tlsVars, deskVars, main_pc, enc_pc, init_rx, init_segment,
                   keyframe_segment, kf_rx, viewer>>

\* EncodingPipeline::run, one frame taken from frame_rx: encode_frame, and
\* segment_tx.send of the segment if the encode succeeded
pipeline_frame ==
    /\ enc_pc = "run"
    /\ frame_q # <<>>
    /\ frame_q' = Tail(frame_q)
    /\ frame_seq' = Head(frame_q)
    /\ \/ \E units \in EncoderOutputs :
            /\ encoded' = EncodedFrame(units)
            /\ frame_count' = frame_count + 1
            /\ published' = Append(published, MediaSegment(Head(frame_q), units))
            /\ sequence_number' = sequence_number + 1
       \/ /\ encoded' = EncodeError
          /\ UNCHANGED <<frame_count, published, sequence_number>>
    /\ UNCHANGED <<authVars, pc, loc, gateVars, histVars, inputVars, storeVars, cap_pc, cap_fatal,
                   captured, stylusVars, tlsVars, deskVars, main_pc, enc_pc, init_rx, init_segment,
                   keyframe_segment, kf_rx, viewer>>

\* EncodingPipeline::run: frame_rx.recv() returns None, the capture thread
\* has dropped frame_tx and no frame is queued
pipeline_stops ==
    /\ enc_pc = "run"
    /\ frame_q = <<>>
    /\ cap_pc = "exited"
    /\ enc_pc' = "stopped"
    /\ UNCHANGED <<authVars, pc, loc, gateVars, histVars, inputVars, storeVars, restVars,
                   main_pc, init_rx, init_segment, keyframe_segment, published, frame_seq,
                   kf_rx, viewer, sequence_number>>

(* --------------- tokio::sync::broadcast, as the code uses it ----------- *)

\* position of the oldest segment the channel still holds
Oldest == IF Len(published) > SEGMENT_CAPACITY THEN Len(published) - SEGMENT_CAPACITY ELSE 0

\* Receiver::recv at position next: "lagged", "segment" or "empty" (it waits)
RecvKind(next) ==
    IF next < Oldest THEN "lagged"
    ELSE IF next < Len(published) THEN "segment" ELSE "empty"

(* --------------------- main.rs: keyframe task -------------------------- *)

\* the keyframe task: while let Ok(segment) = keyframe_rx.recv().await
keyframe_task ==
    /\ main_pc = "serving"
    /\ kf_rx.alive
    /\ RecvKind(kf_rx.next) # "empty"
    /\ IF RecvKind(kf_rx.next) = "lagged"
       THEN /\ kf_rx' = [kf_rx EXCEPT !.alive = FALSE]
            /\ UNCHANGED keyframe_segment
       ELSE /\ kf_rx' = [kf_rx EXCEPT !.next = @ + 1]
            /\ keyframe_segment' = IF published[kf_rx.next + 1].is_keyframe
                                   THEN published[kf_rx.next + 1].sequence
                                   ELSE keyframe_segment
    /\ UNCHANGED <<restVars, histVars, inputVars, storeVars, authVars, pc, loc, gateVars, main_pc, enc_pc, init_rx, init_segment,
                   published, frame_seq, sequence_number, viewer>>

(* ------------------ websocket.rs: handle_video_socket ------------------ *)

\* what the writer did, in order: t is the kind of event, n the count of a
\* Lagged(n), sent the number of segments published when it was returned
\* mfhd is the sequence_number in the bytes written, 0 where none are
InitEvent == [t |-> "init", sequence |-> 0, is_keyframe |-> FALSE, n |-> 0, sent |-> 0, mfhd |-> 0]
\* the bytes AppState.keyframe_segment holds are those of the published
\* segment with that sequence
CachedData(sequence) ==
    published[CHOOSE i \in DOMAIN published : published[i].sequence = sequence].data
CachedEvent(sequence) ==
    [t |-> "cached", sequence |-> sequence, is_keyframe |-> TRUE, n |-> 0, sent |-> 0,
     mfhd |-> CachedData(sequence).mfhd]
SegmentEvent(seg) ==
    [t |-> "segment", sequence |-> seg.sequence, is_keyframe |-> seg.is_keyframe, n |-> 0,
     sent |-> 0, mfhd |-> seg.data.mfhd]
LaggedEvent(n) ==
    [t |-> "lagged", sequence |-> 0, is_keyframe |-> FALSE, n |-> n, sent |-> Len(published),
     mfhd |-> 0]

\* state.video_tx.subscribe(), then the Init and Ready text messages
video_socket_subscribe(p) ==
    /\ pc[p] = "vs_subscribe"
    /\ viewer' = [viewer EXCEPT ![p] = [next |-> Len(published), sub |-> Len(published), trace |-> <<>>]]
    /\ subscribed' = subscribed \cup {loc[p].conn}
    /\ pc' = [pc EXCEPT ![p] = "vs_init"]
    /\ UNCHANGED <<restVars, histVars, inputVars, storeVars, authVars, loc, auth_required, conns, input_q, main_pc, enc_pc,
                   init_rx, init_segment, keyframe_segment, published, frame_seq, sequence_number, kf_rx>>

\* the init segment is sent if available
video_socket_init(p) ==
    /\ pc[p] = "vs_init"
    /\ viewer' = [viewer EXCEPT ![p].trace =
                    IF init_segment THEN Append(@, InitEvent) ELSE @]
    /\ pc' = [pc EXCEPT ![p] = "vs_keyframe"]
    /\ UNCHANGED <<restVars, histVars, inputVars, storeVars, authVars, loc, gateVars, main_pc, enc_pc,
                   init_rx, init_segment, keyframe_segment, published, frame_seq, sequence_number, kf_rx>>

\* the cached keyframe segment is sent if there is one
video_socket_keyframe(p) ==
    /\ pc[p] = "vs_keyframe"
    /\ viewer' = [viewer EXCEPT ![p].trace =
                    IF keyframe_segment # 0 THEN Append(@, CachedEvent(keyframe_segment)) ELSE @]
    /\ pc' = [pc EXCEPT ![p] = "vs_loop"]
    /\ UNCHANGED <<restVars, histVars, inputVars, storeVars, authVars, loc, gateVars, main_pc, enc_pc,
                   init_rx, init_segment, keyframe_segment, published, frame_seq, sequence_number, kf_rx>>

\* the send loop with a writer that gives up on Lagged
video_socket_recv_break_on_lagged(p) ==
    /\ pc[p] = "vs_loop"
    /\ RecvKind(viewer[p].next) # "empty"
    /\ IF RecvKind(viewer[p].next) = "lagged"
       THEN /\ viewer' = [viewer EXCEPT ![p].next = Oldest,
                                        ![p].trace = Append(@, LaggedEvent(Oldest - viewer[p].next))]
            /\ Done(p)
       ELSE /\ viewer' = [viewer EXCEPT ![p].next = @ + 1,
                                        ![p].trace = Append(@, SegmentEvent(published[viewer[p].next + 1]))]
            /\ UNCHANGED <<pc, loc>>
    /\ UNCHANGED <<restVars, histVars, inputVars, storeVars, authVars, gateVars, main_pc, enc_pc,
                   init_rx, init_segment, keyframe_segment, published, frame_seq, sequence_number, kf_rx>>

\* the send loop, segment_rx.recv(): a segment is written to the socket, a
\* Lagged(n) is logged and the loop goes on
video_socket_recv(p) ==
    /\ pc[p] = "vs_loop"
    /\ RecvKind(viewer[p].next) # "empty"
    /\ IF RecvKind(viewer[p].next) = "lagged"
       THEN /\ viewer' = [viewer EXCEPT ![p].next = Oldest,
                                        ![p].trace = Append(@, LaggedEvent(Oldest - viewer[p].next))]
            /\ UNCHANGED <<pc, loc>>
       ELSE /\ viewer' = [viewer EXCEPT ![p].next = @ + 1,
                                        ![p].trace = Append(@, SegmentEvent(published[viewer[p].next + 1]))]
            /\ UNCHANGED <<pc, loc>>
    /\ UNCHANGED <<restVars, histVars, inputVars, storeVars, authVars, gateVars, main_pc, enc_pc,
                   init_rx, init_segment, keyframe_segment, published, frame_seq, sequence_number, kf_rx>>

\* a write to the socket fails (the client is gone): the handler returns and
\* its receiver is dropped
video_socket_closed(p) ==
    /\ pc[p] \in {"vs_init", "vs_keyframe", "vs_loop"}
    /\ viewer' = [viewer EXCEPT ![p] = NoViewer]
    /\ Done(p)
    /\ UNCHANGED <<restVars, histVars, inputVars, storeVars, authVars, gateVars, main_pc, enc_pc,
                   init_rx, init_segment, keyframe_segment, published, frame_seq, sequence_number, kf_rx>>

\* main serves: it has waited for the encoder thread, which runs its pipeline
\* (enc = "run") or has returned (enc = "failed"), and has subscribed the
\* keyframe task; no frame was encoded yet
ServerStarted(auth, enc) ==
    /\ now = 0
    /\ ticks = 0
    /\ sessions = EmptyMap
    /\ nextSession = 0
    /\ devices = EmptyMap
    /\ nextDevice = 0
    /\ file = NoFile
    /\ ioFailures = 0
    /\ pc = [p \in Procs |-> "idle"]
    /\ loc = [p \in Procs |-> NoLoc]
    /\ responses = {}
    /\ issued = {}
    /\ revoked = {}
    /\ auth_required = auth
    /\ conns = <<>>
    /\ subscribed = {}
    /\ input_q = <<>>
    /\ main_pc = "serving"
    /\ enc_pc = enc
    /\ init_rx = 2
    /\ init_segment = (enc = "run")
    /\ keyframe_segment = 0
    /\ published = <<>>
    /\ frame_seq = 0
    /\ kf_rx = [next |-> 0, alive |-> TRUE]
    /\ viewer = [p \in Procs |-> NoViewer]
    /\ sequence_number = 1
    /\ writing = [p \in Procs |-> NoWrite]

\* the server is up: main has stored the init segment and subscribed the
\* keyframe task, no frame was encoded yet
ServerState(auth) == ServerStarted(auth, "run")

\* the server with a touchscreen just created
ServerUp(auth) == ServerState(auth) /\ NoTouch /\ HostState

Init == ServerUp(TRUE) /\ Recording(FALSE)

\* the pairing and device-store calls
PairingStep(maxSessions, maxDevices) ==
    \/ \E p \in Procs : start_pairing(p, maxSessions)
    \/ \E p \in Procs : verify_pin_check(p, maxDevices)
    \/ \E p \in Procs : verify_pin_insert(p)
    \/ \E p \in Procs : verify_pin_save(p)
    \/ \E p \in Procs : verify_pin_remove(p)
    \/ \E p \in Procs : revoke_device(p)
    \/ \E p \in Procs : revoke_device_save(p)

\* the websocket upgrade requests
GatewayStep(tokens) ==
    \/ \E p \in Procs : video_ws_handler(p, tokens)
    \/ \E p \in Procs : input_ws_handler(p, tokens)
    \/ \E p \in Procs : touch_device_validate(p)
    \/ \E p \in Procs : touch_device_mut(p)
    \/ \E p \in Procs : touch_device_save(p)
    \/ \E p \in Procs : ws_upgrade(p)
    \/ \E p \in Procs : input_socket_recv(p)
    \/ \E p \in Procs : video_socket_subscribe(p)
    \/ \E p \in Procs : video_socket_closed(p)

Next == Tick \/ PairingStep(MaxSessions, MaxDevices)

\* the pairing core under the clock
Spec == Init /\ [][Next]_vars

NextGateway == PairingStep(GwSessions, GwDevices) \/ GatewayStep(1..GwDevices)

InitGateway == (\E auth \in BOOLEAN : ServerUp(auth)) /\ Recording(FALSE)

\* pairing with the verify_pin calls and their outcomes recorded
InitVerify == ServerUp(TRUE) /\ Recording(TRUE)

NextVerify ==
    \/ Tick
    \/ \E p \in Procs : start_pairing(p, VerifySessions)
    \/ \E p \in Procs : verify_pin_check(p, VerifyDevices)
    \/ \E p \in Procs : verify_pin_insert(p)
    \/ \E p \in Procs : verify_pin_save(p)
    \/ \E p \in Procs : verify_pin_remove(p)

SpecVerify == InitVerify /\ [][NextVerify]_vars

\* pairing under the clock, and validate_token called with the tokens issued
InitSeen == ServerUp(TRUE) /\ Recording(TRUE)

NextSeen ==
    \/ Tick
    \/ \E p \in Procs : start_pairing(p, GwSessions)
    \/ \E p \in Procs : verify_pin_check(p, GwDevices)
    \/ \E p \in Procs : verify_pin_insert(p)
    \/ \E p \in Procs : verify_pin_save(p)
    \/ \E p \in Procs : verify_pin_remove(p)
    \/ \E p \in Procs : validate_token_call(p, 1..GwDevices)

SpecSeen == InitSeen /\ [][NextSeen]_vars

\* concurrent calls of DeviceStorage with the file write in steps
InitStore == ServerUp(TRUE) /\ Recording(TRUE)

NextStore ==
    \/ Tick
    \/ \E p \in Procs : save_device(p)
    \/ \E p \in Procs : remove_device(p)
    \/ \E p \in Procs : touch_device(p)
    \/ \E p \in Procs : clear(p)
    \/ \E p \in Procs : save_lock(p)
    \/ \E p \in Procs : save_open(p)
    \/ \E p \in Procs : save_write(p)
    \/ restart

SpecStore == InitStore /\ [][NextStore]_vars

\* the touchscreen of the input task: new, or with touches 101.. already
\* started on a new one
TouchesStarted(k) ==
    /\ active_touches = [id \in 101..(100 + k) |-> id - 101]
    /\ tracked = 0..(k - 1)
    /\ next_tracking_id = k
    /\ touch_count = 0
    /\ emitted = IF k = 0 THEN NoEmit
                 ELSE [op |-> "touch_start", id |-> 100 + k, slot |-> k - 1, used |-> 0..(k - 2),
                       events |-> << <<"ABS_MT_SLOT", k - 1>>, <<"ABS_MT_TRACKING_ID", k - 1>>,
                                     <<"ABS_MT_POSITION_X", offset_x>>,
                                     <<"ABS_MT_POSITION_Y", offset_y>>,
                                     <<"ABS_X", offset_x>>, <<"ABS_Y", offset_y>>,
                                     <<"BTN_TOUCH", 1>>, <<"SYN", 0>> >>,
                       ok |-> TRUE]

InitTouch ==
    /\ ServerState(TRUE)
    /\ HostState
    /\ Recording(FALSE)
    /\ \E k \in {0, TouchesDown} : TouchesStarted(k)

NextTouch ==
    \/ \E id \in TouchIds : touch_start(id)
    \/ \E id \in TouchIds : touch_move(id)
    \/ \E id \in TouchIds : touch_end(id)
    \/ \E id \in TouchIds : touch_cancel(id)

SpecTouch == InitTouch /\ [][NextTouch]_vars

\* the stylus of the input task
InitStylus == ServerUp(TRUE) /\ Recording(FALSE)

NextStylus == pen_hover \/ pen_down \/ pen_move \/ pen_up \/ pen_leave \/ pen_button

SpecStylus == InitStylus /\ [][NextStylus]_vars

\* the pairing core behind the websocket gateway
SpecGateway == InitGateway /\ [][NextGateway]_vars

\* the server starts with authentication disabled (--no-auth)
InitVideo ==
    /\ now = 0
    /\ ticks = 0
    /\ sessions = EmptyMap
    /\ nextSession = 0
    /\ devices = EmptyMap
    /\ nextDevice = 0
    /\ file = NoFile
    /\ ioFailures = 0
    /\ pc = [p \in Procs |-> "idle"]
    /\ loc = [p \in Procs |-> NoLoc]
    /\ responses = {}
    /\ issued = {}
    /\ revoked = {}
    /\ auth_required = FALSE
    /\ conns = <<>>
    /\ subscribed = {}
    /\ input_q = <<>>
    /\ main_pc = "wait_init"
    /\ enc_pc = "new"
    /\ init_rx = 0
    /\ init_segment = FALSE
    /\ keyframe_segment = 0
    /\ published = <<>>
    /\ frame_seq = 0
    /\ kf_rx = [next |-> 0, alive |-> FALSE]
    /\ viewer = [p \in Procs |-> NoViewer]
    /\ sequence_number = 1
    /\ Recording(FALSE)
    /\ NoTouch
    /\ HostState
    /\ writing = [p \in Procs |-> NoWrite]

\* start-up of main and of the encoder thread
StartupStep ==
    \/ encoder_new
    \/ encoder_send_init
    \/ main_recv_init
    \/ main_init_timeout
    \/ main_subscribe_keyframe

\* a video connection is requested and upgraded; its handler subscribes
ViewerJoin ==
    \/ \E p \in Procs : video_ws_handler(p, {})
    \/ \E p \in Procs : ws_upgrade(p)
    \/ \E p \in Procs : video_socket_subscribe(p)

\* the video connections once subscribed
ViewerStep ==
    \/ \E p \in Procs : video_socket_init(p)
    \/ \E p \in Procs : video_socket_keyframe(p)
    \/ \E p \in Procs : video_socket_recv(p)
    \/ \E p \in Procs : video_socket_closed(p)

NextVideo ==
    \/ StartupStep
    \/ pipeline_run(JoinFrames, JoinKeyframes)
    \/ pipeline_run_error(JoinFrames, JoinErrors)
    \/ keyframe_task
    \/ ViewerJoin
    \/ ViewerStep

\* viewers joining a starting stream
SpecVideo == InitVideo /\ [][NextVideo]_vars

\* the server is up with authentication disabled, nothing published yet
InitLag == ServerUp(FALSE) /\ Recording(FALSE)

\* the keyframe task is not scheduled while these frames are published
NextLag ==
    \/ pipeline_run(LagFrames, LagKeyframes)
    \/ (Len(published) <= LagJoinBy /\ ViewerJoin)
    \/ ViewerStep

\* viewers falling behind a running stream
SpecLag == InitLag /\ [][NextLag]_vars

\* the capture thread starts while the server is up; EncodingPipeline::new
\* has taken the encoder's first output for the headers, or has failed
InitCapture ==
    /\ \E enc \in {"run", "failed"} : ServerStarted(FALSE, enc)
    /\ NoTouch /\ EncoderNew /\ StylusNew /\ NoCertificate /\ DeskNew
    /\ Recording(FALSE)
    /\ cap_pc = "setup" /\ cap_fatal = FALSE /\ captured = 0 /\ frame_q = <<>>

\* video connections are requested while there are fewer than CaptureViewers
CaptureViewerJoin ==
    \/ \E p \in Procs : Len(conns) < CaptureViewers /\ video_ws_handler(p, {})
    \/ \E p \in Procs : ws_upgrade(p)
    \/ \E p \in Procs : video_socket_subscribe(p)

NextCapture ==
    \/ capture_setup
    \/ capture_source_fails
    \/ capture_frame
    \/ capture_error
    \/ capture_sleep
    \/ pipeline_frame
    \/ pipeline_stops
    \/ keyframe_task
    \/ CaptureViewerJoin
    \/ ViewerStep

\* frames from the capture thread through the encoder to the viewers
SpecCapture == InitCapture /\ [][NextCapture]_vars

\* every thread and every task of the runtime that can take a step is
\* scheduled; the source need not fail and a client need not leave
CaptureFairness ==
    /\ WF_vars(capture_setup)
    /\ WF_vars(capture_frame)
    /\ WF_vars(capture_error)
    /\ WF_vars(capture_sleep)
    /\ WF_vars(pipeline_frame)
    /\ WF_vars(pipeline_stops)
    /\ WF_vars(keyframe_task)
    /\ WF_vars(\E p \in Procs : ws_upgrade(p))
    /\ WF_vars(\E p \in Procs : video_socket_subscribe(p))
    /\ WF_vars(\E p \in Procs : video_socket_init(p))
    /\ WF_vars(\E p \in Procs : video_socket_keyframe(p))
    /\ WF_vars(\E p \in Procs : video_socket_recv(p))

\* the same under a scheduler that lets every thread and task run
SpecCaptureFair == SpecCapture /\ CaptureFairness

\* devices are paired and revoked while their connections are open and the
\* stream is published
NextRevoke ==
    \/ PairingStep(RevSessions, RevDevices)
    \/ GatewayStep(1..RevDevices)
    \/ ViewerStep
    \/ pipeline_run(RevFrames, RevKeyframes)

\* revocation with connections open
SpecRevoke == Init /\ [][NextRevoke]_vars

\* sessions are started and looked up under the clock
NextStatus ==
    \/ Tick
    \/ \E p \in Procs : start_pairing(p, StatusSessions)
    \/ \E p \in Procs : pair_status_handler(p, 1..StatusSessions)
    \/ \E p \in Procs : get_qr_data(p, 1..StatusSessions)

\* the pairing status endpoints
SpecStatus == InitVerify /\ [][NextStatus]_vars

\* the program is run again and again on one configuration directory
NextTls ==
    \/ \E hostnames \in HostnameLists : load_or_generate(hostnames)
    \/ generate_write_cert
    \/ generate_write_key
    \/ generate_save_metadata
    \/ generate_write_fails
    \/ generate_interrupted
    \/ cert_clock

\* the certificate store over the runs of the program
SpecTls == Init /\ [][NextTls]_vars

\* the stream is published while the keyframe task runs at its own pace
NextKeyframe ==
    \/ pipeline_run(KfFrames, KfKeyframes)
    \/ keyframe_task

\* the keyframe cache behind a running stream
SpecKeyframe == InitLag /\ [][NextKeyframe]_vars

(* ------------------------------ claims --------------------------------- *)

\* C1: a pairing session is single-use: whatever the interleaving of the
\* verify_pin calls on one session, at most one of them returns a token and
\* at most one device is created for the session.
C1_SingleUse ==
    /\ \A a, b \in responses : a.sid = b.sid => a = b
    /\ \A a, b \in issued : a.sid = b.sid => a = b

\* C2: the token a verify_pin call returned validates, and resolves to the
\* device whose id the call returned, as long as that device is not revoked.
C2_TokenValidates ==
    \A r \in responses :
        r.device_id \notin revoked =>
            /\ validate_token(r.token) # {}
            /\ \A d \in validate_token(r.token) : d.id = r.device_id

\* a token was returned, time has passed and its device is still paired
C2_Witness ==
    \E r \in responses :
        /\ r.device_id \notin revoked
        /\ revoked # {}
        /\ \E d \in validate_token(r.token) : d.id = r.device_id /\ d.last_seen < now

StoredTokensReturned(m) ==
    \A id \in DOMAIN m : \E r \in responses : m[id].token_hash = hash_token(r.token)

C6_StoredTokensReturned ==
    (\A p \in Procs : pc[p] \notin {"vp_insert", "vp_save", "vp_remove"}) =>
        /\ StoredTokensReturned(devices)
        /\ file.kind = "json" => StoredTokensReturned(file.devices)

\* C7: with authentication enabled, an upgrade request without a token, or
\* with a token the pairing manager rejects, is answered 401: it never
\* subscribes to the broadcast and none of its input reaches input_tx.
C7_RejectedNeverUpgraded ==
    \A c \in DOMAIN conns :
        (auth_required /\ (conns[c].token = NoToken \/ ~conns[c].valid)) =>
            /\ conns[c].status = 401
            /\ c \notin subscribed
            /\ \A k \in DOMAIN input_q : input_q[k].conn # c

\* one request with a rejected token got 401 while another, with the token
\* of a paired device, subscribed or forwarded input
C7_Witness ==
    /\ auth_required
    /\ \E c \in DOMAIN conns :
          conns[c].token # NoToken /\ ~conns[c].valid /\ conns[c].status = 401
    /\ \E c \in DOMAIN conns :
          /\ conns[c].valid
          /\ c \in subscribed \/ \E k \in DOMAIN input_q : input_q[k].conn = c

\* what a viewer was sent: the fMP4 media segments, cached or live
IsMedia(e) == e.t \in {"cached", "segment"}

Traces == {viewer[p].trace : p \in Procs}

\* C4: a viewer receives a media segment only after the init segment and,
\* after that, a keyframe segment; so its first media segment is a keyframe.
C4_InitThenKeyframe ==
    \A tr \in Traces : \A i \in DOMAIN tr :
        IsMedia(tr[i]) =>
            \E j \in 1..(i - 1) :
                /\ tr[j].t = "init"
                /\ \E k \in (j + 1)..i : IsMedia(tr[k]) /\ tr[k].is_keyframe

\* C5: on one connection the sequence numbers of the segments delivered are
\* strictly increasing, the cached keyframe segment included.
C5_SequenceIncreasing ==
    \A tr \in Traces : \A i, j \in DOMAIN tr :
        (i < j /\ IsMedia(tr[i]) /\ IsMedia(tr[j])) => tr[i].sequence < tr[j].sequence

\* C8: after a Lagged notice the next segment delivered to the viewer is a
\* keyframe segment.
C8_KeyframeAfterLagged ==
    \A tr \in Traces : \A i, j \in DOMAIN tr :
        (/\ i < j
         /\ tr[i].t = "lagged"
         /\ IsMedia(tr[j])
         /\ \A k \in (i + 1)..(j - 1) : ~IsMedia(tr[k])) => tr[j].is_keyframe

\* the live part of a trace: what segment_rx.recv() returned
RECURSIVE Live(_)
Live(tr) ==
    IF tr = <<>> THEN <<>>
    ELSE IF tr[1].t \in {"segment", "lagged"} THEN <<tr[1]>> \o Live(Tail(tr))
    ELSE Live(Tail(tr))

\* positions in the publish order reached after each live event of a
\* receiver that stood at position sub
RECURSIVE Positions(_, _)
Positions(lv, sub) ==
    IF lv = <<>> THEN <<>>
    ELSE LET reached == sub + (IF lv[1].t = "lagged" THEN lv[1].n ELSE 1)
         IN <<reached>> \o Positions(Tail(lv), reached)

\* C9: a viewer that fell more than 16 segments behind loses the oldest
\* segments only: it gets a Lagged(n), n the number of segments older than
\* the 16 retained, the segments delivered next are the published ones in
\* publish order from the oldest one retained, and the writer stays in its
\* send loop after a Lagged.
C9_LaggedAccounting ==
    \A p \in Procs :
        LET lv == Live(viewer[p].trace)
            pos == <<viewer[p].sub>> \o Positions(lv, viewer[p].sub)
        IN
        /\ pos[Len(pos)] = viewer[p].next
        /\ \A k \in DOMAIN lv :
              IF lv[k].t = "lagged"
              THEN /\ lv[k].sent - pos[k] > SEGMENT_CAPACITY
                   /\ lv[k].n = (lv[k].sent - SEGMENT_CAPACITY) - pos[k]
              ELSE /\ pos[k + 1] \in DOMAIN published
                   /\ lv[k].sequence = published[pos[k + 1]].sequence
        /\ (lv # <<>> /\ lv[Len(lv)].t = "lagged") => pc[p] = "vs_loop"

\* a viewer got Lagged(n) and then the oldest retained segment
C9_Witness ==
    \E p \in Procs :
        LET lv == Live(viewer[p].trace) IN
        \E k \in DOMAIN lv :
            /\ lv[k].t = "lagged"
            /\ lv[k].n > 1
            /\ k < Len(lv)
            /\ lv[k + 1].t = "segment"

\* C10: publishing does not wait for viewers, and a viewer that was never
\* more than 16 segments behind has received every segment from its
\* subscription up to its position, in publish order without a gap, however
\* far the other viewers lag and whatever handles were dropped.
KeepsUp(p) ==
    /\ pc[p] = "vs_loop"
    /\ viewer[p].next >= Oldest
    /\ \A k \in DOMAIN viewer[p].trace : viewer[p].trace[k].t # "lagged"

C10_NoGapForKeepingUp ==
    /\ (enc_pc = "run" /\ frame_seq < LagFrames) => ENABLED pipeline_run(LagFrames, LagKeyframes)
    /\ \A p \in Procs :
          KeepsUp(p) =>
              LET lv == Live(viewer[p].trace) IN
              /\ Len(lv) = viewer[p].next - viewer[p].sub
              /\ \A k \in DOMAIN lv : lv[k].sequence = published[viewer[p].sub + k].sequence

\* one viewer lagged, another kept up and received more than 16 segments
C10_Witness ==
    \E p, q \in Procs :
        /\ KeepsUp(p)
        /\ Len(Live(viewer[p].trace)) > SEGMENT_CAPACITY
        /\ \E k \in DOMAIN viewer[q].trace : viewer[q].trace[k].t = "lagged"

\* the mfhd sequence numbers of the media segments written to one socket
RECURSIVE MfhdOf(_)
MfhdOf(tr) ==
    IF tr = <<>> THEN <<>>
    ELSE IF IsMedia(tr[1]) THEN <<tr[1].mfhd>> \o MfhdOf(Tail(tr))
    ELSE MfhdOf(Tail(tr))

\* C20: on every viewer connection the mfhd sequence numbers of the media
\* segments received start at 1 and are strictly increasing in delivery
\* order.
C20_MfhdFromOne ==
    \A tr \in Traces :
        LET m == MfhdOf(tr) IN
        /\ m # <<>> => m[1] = 1
        /\ \A i, j \in DOMAIN m : i < j => m[i] < m[j]

Calls == history.calls

\* the session of a recorded call, as start_pairing created it
SessionOf(e) == history.created[e.sid]

\* a verify_pin on session sid returned Ok before the j-th recorded event
ConsumedBefore(sid, j) ==
    \E k \in 1..(j - 1) :
        Calls[k].ev = "ret" /\ Calls[k].res = "Ok" /\ Calls[k].sid = sid

\* call i was made with a wrong PIN while its session had not expired
WrongPinCall(i) ==
    /\ Calls[i].ev = "call"
    /\ Calls[i].found
    /\ Calls[i].pin # SessionOf(Calls[i]).pin
    /\ Calls[i].at <= SessionOf(Calls[i]).expires_at

\* C11: verify_pin with a wrong PIN on an unexpired session returns
\* InvalidPin and leaves the session in the map with its PIN and expiry: it
\* is still there until it is used or expires, and a later verify_pin with
\* the correct PIN before expiry is accepted.
C11_WrongPinKeepsSession ==
    \A i \in DOMAIN Calls :
        WrongPinCall(i) =>
            /\ Calls[i].res = "InvalidPin"
            /\ (~ConsumedBefore(Calls[i].sid, Len(Calls) + 1)
                  /\ now <= SessionOf(Calls[i]).expires_at) =>
                    /\ Calls[i].sid \in DOMAIN sessions
                    /\ sessions[Calls[i].sid] = SessionOf(Calls[i])
            /\ \A j \in DOMAIN Calls :
                  (/\ i < j
                   /\ Calls[j].ev = "call"
                   /\ Calls[j].sid = Calls[i].sid
                   /\ Calls[j].pin = SessionOf(Calls[i]).pin
                   /\ Calls[j].at <= SessionOf(Calls[i]).expires_at
                   /\ ~ConsumedBefore(Calls[i].sid, j)) => Calls[j].res = "Accepted"

\* a wrong PIN was rejected, the next call had the right PIN and returned Ok
C11_Witness ==
    \E i, j, k \in DOMAIN Calls :
        /\ i < j /\ j < k
        /\ WrongPinCall(i)
        /\ Calls[j].ev = "call" /\ Calls[j].sid = Calls[i].sid /\ Calls[j].res = "Accepted"
        /\ Calls[k].ev = "ret" /\ Calls[k].id = Calls[j].id /\ Calls[k].res = "Ok"

\* call j carries the PIN of a session that start_pairing created and that
\* no verify_pin had used up when the call was made
RightPinCall(j) ==
    /\ Calls[j].ev = "call"
    /\ Calls[j].known
    /\ Calls[j].pin = SessionOf(Calls[j]).pin
    /\ ~ConsumedBefore(Calls[j].sid, j)

\* every device stored stems from a call accepted before its session expired
DevicesFromUnexpired ==
    \A d \in issued :
        \E j \in DOMAIN Calls :
            /\ Calls[j].res = "Accepted"
            /\ Calls[j].id = d.id
            /\ Calls[j].at <= SessionOf(Calls[j]).expires_at

\* C12 as stated: a session is accepted with its PIN at every time before
\* its expiry and rejected with InvalidPin at every time after it, and a
\* rejected verify creates no device.
C12_RejectedWithInvalidPin ==
    /\ DevicesFromUnexpired
    /\ \A j \in DOMAIN Calls :
          RightPinCall(j) =>
              /\ Calls[j].at < SessionOf(Calls[j]).expires_at => Calls[j].res = "Accepted"
              /\ Calls[j].at > SessionOf(Calls[j]).expires_at => Calls[j].res = "InvalidPin"

\* a start_pairing made after the session of call j expired, before call j
SweptBefore(j) ==
    \E sid \in DOMAIN history.created :
        /\ history.created[sid].expires_at - PIN_VALIDITY_SECONDS > SessionOf(Calls[j]).expires_at
        /\ history.created[sid].expires_at - PIN_VALIDITY_SECONDS <= Calls[j].at

\* C12: a session is accepted with its PIN at every time before its expiry
\* and rejected at every time after it, with InvalidPin while it is still
\* in the map and with SessionNotFound once a later start_pairing has swept
\* it; a rejected verify creates no device.
C12_ExpiryObserved ==
    /\ DevicesFromUnexpired
    /\ \A j \in DOMAIN Calls :
          RightPinCall(j) =>
              /\ Calls[j].at < SessionOf(Calls[j]).expires_at => Calls[j].res = "Accepted"
              /\ Calls[j].at > SessionOf(Calls[j]).expires_at =>
                    /\ Calls[j].res = IF Calls[j].found THEN "InvalidPin" ELSE "SessionNotFound"
                    /\ ~Calls[j].found => SweptBefore(j)

\* an expired session was rejected with InvalidPin and, after a sweep, an
\* expired session was rejected with SessionNotFound
C12_Witness ==
    \E i, j \in DOMAIN Calls :
        /\ i < j
        /\ RightPinCall(i) /\ RightPinCall(j)
        /\ Calls[i].at > SessionOf(Calls[i]).expires_at /\ Calls[i].res = "InvalidPin"
        /\ Calls[j].at > SessionOf(Calls[j]).expires_at /\ Calls[j].res = "SessionNotFound"

\* C13: whenever verify_pin returns an error (SessionNotFound, InvalidPin or
\* Storage), list_devices returns the same devices as before the call.
C13_ErrorLeavesDevices ==
    \A k \in DOMAIN Calls :
        /\ Calls[k].res \in {"SessionNotFound", "InvalidPin"} => Calls[k].id = 0
        /\ Calls[k].res = "Storage" =>
              \A j \in 1..(k - 1) :
                  (Calls[j].ev = "call" /\ Calls[j].id = Calls[k].id) => Calls[j].devs = Calls[k].devs

\* no DeviceStorage call is in progress
StoreIdle == \A p \in Procs : writing[p].stage = "none"

\* task p returns from save() in this step
SaveReturn(p) ==
    /\ writing[p].stage \in {"locked", "open"}
    /\ writing'[p].stage = "none"
    /\ history'.last_write # "none"

\* C14: when the file write of a store call fails, the call returns the
\* error and the in-memory map is left as the call changed it; when a later
\* write succeeds, the file holds the complete in-memory map.
C14_FailedWriteKeepsMemory ==
    [][\A p \in Procs :
          SaveReturn(p) =>
              /\ pc'[p] = "idle"
              /\ devices' = devices
              /\ writing[p].json = devices
              /\ IF ioFailures' > ioFailures
                 THEN /\ history'.last_write = "failed"
                      /\ [op |-> writing[p].op, id |-> writing[p].id] \in history'.failed
                 ELSE /\ history'.last_write = "ok"
                      /\ file' = JsonFile(devices')]_vars

\* the write of save_device(1) failed, device 1 stayed in memory, and a later
\* save, of device 2, wrote both to the file
C14_Witness ==
    /\ StoreIdle
    /\ [op |-> "save_device", id |-> 1] \in history.failed
    /\ history.last_write = "ok"
    /\ DOMAIN devices = {1, 2}
    /\ file = JsonFile(devices)

\* the tasks that have the file open for writing
Writers == {p \in Procs : writing[p].stage = "open"}

\* C15: no two writes of the file are in progress at the same time, and when
\* a call has returned from a successful write and no write is in progress
\* the file parses to a device map.
C15_WritesSerialized ==
    /\ Cardinality(Writers) <= 1
    /\ (history.last_write = "ok" /\ Writers = {}) => file.kind = "json"

\* C16: while a write of the file is in progress the file on disk parses,
\* to the map before the write or to the map being written.
C16_InterruptedWriteParses ==
    \A p \in Procs :
        writing[p].stage = "open" =>
            /\ file.kind # "corrupt"
            /\ with_path(file) \in {with_path(writing[p].old), writing[p].json}

\* C17: once every store operation has completed and the last file write
\* succeeded, the file holds the in-memory device map, and a DeviceStorage
\* reopened on the path loads exactly that map.
C17_FileEqualsMemory ==
    (StoreIdle /\ history.last_write = "ok") =>
        /\ file = JsonFile(devices)
        /\ with_path(file) = devices

\* device 1 was saved and removed, device 2 saved, one write failed on the way,
\* and the last write succeeded
C17_Witness ==
    /\ StoreIdle
    /\ history.last_write = "ok"
    /\ [op |-> "remove_device", id |-> 1] \in history.failed
    /\ DOMAIN devices = {2}
    /\ with_path(file) = devices

\* the BTN_TOUCH up events in the batch emitted last
TouchUps == {i \in DOMAIN emitted.events : emitted.events[i] = <<"BTN_TOUCH", 0>>}

\* C18: the batch that touch_end or touch_cancel emits holds BTN_TOUCH=0, once,
\* exactly when no touch is active after the removal of the ended id, and no
\* other handler emits BTN_TOUCH=0.
C18_TouchUpIffEmpty ==
    IF emitted.op \in {"touch_end", "touch_cancel"}
    THEN /\ emitted.id \notin DOMAIN active_touches
         /\ Cardinality(TouchUps) = (IF active_touches = EmptyMap THEN 1 ELSE 0)
    ELSE TouchUps = {}

\* two touches were started on a new touchscreen, the first end emitted no
\* BTN_TOUCH=0 and the cancel of the other one emitted it
C18_Witness ==
    /\ emitted.op = "touch_cancel"
    /\ active_touches = EmptyMap
    /\ next_tracking_id = 2
    /\ touch_count = 4
    /\ Cardinality(TouchUps) = 1

\* C19: the slot touch_start assigns is the lowest slot of 0..9 that no
\* active touch used when it was called; distinct active ids have distinct
\* slots, and every slot in the table is in 0..9.
C19_LowestFreeSlot ==
    /\ \A a, b \in DOMAIN active_touches : a # b => active_touches[a] # active_touches[b]
    /\ \A a \in DOMAIN active_touches : active_touches[a] \in 0..9
    /\ emitted.op = "touch_start" =>
          /\ emitted.slot \in 0..9 \ emitted.used
          /\ \A slot \in 0..9 \ emitted.used : emitted.slot <= slot
          /\ active_touches[emitted.id] = emitted.slot

\* all ten slots are taken and the touch started last has slot 0, which the
\* end of touch 101 had freed
C19_Witness ==
    /\ emitted.op = "touch_start"
    /\ emitted.slot = 0
    /\ emitted.id # 101
    /\ Cardinality(DOMAIN active_touches) = max_slots
    /\ touch_count >= 4

\* C28: in the events the touchscreen emits, a slot that holds a tracking id
\* gets ABS_MT_TRACKING_ID = -1 before touch_start gives it another one.
C28_TrackingIdReleased ==
    [][next_tracking_id' # next_tracking_id => emitted'.slot \notin tracked]_vars

\* positions in the batch emitted last where key has value v
KeyAt(key, v) == {i \in DOMAIN stylus_emitted.events : stylus_emitted.events[i] = <<key, v>>}

\* the pen_down emitted last changed the tool while the stylus was in range
ToolSwitched ==
    /\ stylus_emitted.op = "pen_down"
    /\ stylus_emitted.was.in_range
    /\ stylus_emitted.was.eraser_mode # (stylus_emitted.button = "Eraser")

\* C23: when pen_down changes the tool while the stylus is in range, its batch
\* holds the key of the outgoing tool with value 0, then the key of the new
\* tool with value 1, both before the synchronization marker.
C23_OutgoingToolFirst ==
    ToolSwitched =>
        LET zeroed == KeyAt(ToolKey(stylus_emitted.was.eraser_mode), 0)
            raised == KeyAt(ToolKey(~stylus_emitted.was.eraser_mode), 1)
            syn == KeyAt("SYN", 0)
        IN  /\ zeroed # {} /\ raised # {} /\ syn # {}
            /\ \A i \in zeroed, j \in raised : i < j
            /\ \A j \in raised, k \in syn : j < k

\* pen_down has switched from the eraser back to the pen, in range
C23_Witness ==
    /\ ToolSwitched
    /\ stylus_emitted.was.eraser_mode
    /\ stylus_emitted.was.tip_down
    /\ ~stylus.eraser_mode

\* C29: after a successful validate_token, the last_seen of the device it
\* matched is not earlier than the time of the call.
C29_ValidateUpdatesLastSeen ==
    \A v \in history.validated :
        v.id \in DOMAIN devices => devices[v.id].last_seen >= v.at

\* C30: a frame whose encode fails publishes no segment and leaves the
\* muxer's sequence number and the encoder's frame counter as they were, and
\* the pipeline keeps running for the frames that follow
C30_FailedEncodeSkipsFrame ==
    [][(frame_seq' # frame_seq /\ encoded'.res = "err")
          => /\ published' = published
             /\ sequence_number' = sequence_number
             /\ frame_count' = frame_count
             /\ enc_pc' = "run"]_vars

\* a frame failed to encode, and a frame captured after it was published with
\* the sequence number and the pts the failed frame left alone
C30_Witness ==
    /\ encoded.res = "ok"
    /\ published # <<>>
    /\ published[Len(published)].sequence = frame_seq
    /\ frame_seq > Len(published)
    /\ sequence_number = Len(published) + 1
    /\ frame_count = Len(published)

\* the encoder output of a published segment holds an IDR or an SPS unit
HasIdrOrSps(seg) ==
    \E i \in DOMAIN seg.data.nals : NalType(seg.data.nals[i].header) \in {5, 7}

\* C24: the first media segment published is flagged as a keyframe, and every
\* later one is flagged exactly when the encoder output for its frame holds
\* an IDR (5) or SPS (7) unit
C24_FirstSegmentIsKeyframe ==
    \A i \in DOMAIN published :
        IF i = 1 THEN published[i].is_keyframe
        ELSE published[i].is_keyframe <=> HasIdrOrSps(published[i])

\* C21: once the capture source has failed for good, the capture loop exits,
\* the pipeline's run loop ends and no video writer stays in its send loop
C21_FatalCaptureShutsDown ==
    cap_fatal ~> (/\ cap_pc = "exited"
                  /\ enc_pc \in {"stopped", "failed"}
                  /\ \A p \in Procs : pc[p] # "vs_loop")

\* the keyframe task has nothing left to receive: it waits on an empty
\* channel, or it has ended and dropped its receiver
KeyframeTaskDrained == ~kf_rx.alive \/ RecvKind(kf_rx.next) = "empty"

\* the sequence of the keyframe segment published last, 0 if there is none
LastKeyframe ==
    IF Keyframes = {} THEN 0
    ELSE published[CHOOSE i \in Keyframes : \A j \in Keyframes : j <= i].sequence

\* C25: whenever the keyframe task has drained its queue, the segment that
\* get_keyframe_segment returns is the keyframe segment published last, also
\* after the task fell more than SEGMENT_CAPACITY segments behind
C25_KeyframeCacheFollows ==
    KeyframeTaskDrained => keyframe_segment = LastKeyframe

\* revoke_device(id) has returned
RevokeReturned(id) ==
    /\ id \in revoked
    /\ \A p \in Procs : ~(pc[p] = "rm_save" /\ loc[p].id = id)

\* the connection was accepted with the token of a device whose revoke_device
\* has returned (the token of device id is the one issued with it)
OfRevokedDevice(c) ==
    /\ auth_required
    /\ conns[c].valid
    /\ \E i \in issued : i.token = conns[c].token /\ RevokeReturned(i.id)

\* C26: once revoke_device(id) has returned, no segment is written to and no
\* input event is forwarded from a connection accepted with the token of
\* that device
C26_RevokedConnectionSilent ==
    [][/\ \A p \in Procs :
            (/\ pc[p] \in {"vs_init", "vs_keyframe", "vs_loop"}
             /\ Len(viewer'[p].trace) > Len(viewer[p].trace)
             /\ viewer'[p].trace[Len(viewer'[p].trace)].t # "lagged")
               => ~OfRevokedDevice(loc[p].conn)
       /\ Len(input_q') > Len(input_q)
               => ~OfRevokedDevice(input_q'[Len(input_q')].conn)]_vars

\* the last load_or_generate has returned a certificate
TlsReturned == tls_pc = "idle" /\ tls_ret.res = "ok"

\* the call found a certificate stored for the same set of host names with at
\* least CERT_RENEWAL_THRESHOLD_DAYS of validity left
StoredCertificateFits ==
    LET f == tls_ret.found
    IN  /\ f.cert # 0 /\ f.key # 0 /\ f.meta.kind = "json"
        /\ {f.meta.hostnames[i] : i \in DOMAIN f.meta.hostnames}
             = {tls_ret.hostnames[i] : i \in DOMAIN tls_ret.hostnames}
        /\ f.meta.expires_at - tls_ret.at >= Days(CERT_RENEWAL_THRESHOLD_DAYS)

\* C22: load_or_generate returns what is stored, and leaves it alone, when the
\* stored certificate is for the same set of host names and has 30 days left;
\* otherwise it generates one certificate and stores it, and what it has
\* stored is what a repeated call with the same host names returns
C22_LoadOrGenerateOnce ==
    TlsReturned =>
        IF StoredCertificateFits
        THEN /\ ~tls_ret.generated
             /\ tls_gen = tls_ret.found.gen
             /\ tls_ret.cert = tls_ret.found.cert
             /\ tls_ret.key = tls_ret.found.key
             /\ tls_ret.fingerprint = tls_ret.found.meta.fingerprint
             /\ <<cert_file, key_file, meta_file>>
                  = <<tls_ret.found.cert, tls_ret.found.key, tls_ret.found.meta>>
        ELSE /\ tls_ret.generated
             /\ tls_gen = tls_ret.found.gen + 1
             /\ tls_ret.cert = CertPem(tls_gen)
             /\ <<cert_file, key_file, meta_file.fingerprint>>
                  = <<tls_ret.cert, tls_ret.key, tls_ret.fingerprint>>
             /\ meta_file.kind = "json"
             /\ \A again \in HostnameLists :
                    {again[i] : i \in DOMAIN again}
                        = {tls_ret.hostnames[i] : i \in DOMAIN tls_ret.hostnames}
                    => is_certificate_valid(meta_file, again) \/ now > tls_ret.at

\* a certificate was generated, and a later call with the same host names in
\* the other order returned it as stored
C22_Witness ==
    /\ TlsReturned
    /\ StoredCertificateFits
    /\ ~tls_ret.generated
    /\ tls_ret.hostnames # tls_ret.found.meta.hostnames
    /\ tls_ret.cert = CertPem(tls_gen)
    /\ tls_gen > 0

\* C27: the fingerprint load_or_generate returns is that of the certificate
\* it returns, and the key it returns is the key of that certificate
C27_ReturnedTripleConsistent ==
    TlsReturned =>
        /\ tls_ret.fingerprint = calculate_cert_fingerprint(tls_ret.cert)
        /\ tls_ret.key = KeyOfCert(tls_ret.cert)

\* C31: when start_pairing returns, the session map holds the new session
\* and no session whose expiry had passed at the time of the sweep
C31_StartPairingSweeps ==
    [][nextSession' # nextSession
          => /\ nextSession' \in DOMAIN sessions'
             /\ \A k \in DOMAIN sessions' : ~(now > sessions'[k].expires_at)]_vars

\* a session that no verify_pin call consumed has expired and is gone from
\* the map, which holds the session created last
C31_Witness ==
    /\ nextSession \in DOMAIN sessions
    /\ \E sid \in DOMAIN history.created :
         /\ sid \notin DOMAIN sessions
         /\ now > history.created[sid].expires_at
         /\ \A i \in DOMAIN history.calls :
                ~(history.calls[i].sid = sid /\ history.calls[i].res = "Accepted")

\* C32: get_session_info and get_qr_data report a session only while it is
\* unexpired: no answer says valid or carries the PIN for a session whose
\* expiry had passed when the request was answered
C32_ExpiredSessionNotReported ==
    \A i \in DOMAIN history.reported :
        LET r == history.reported[i]
        IN  (r.valid \/ r.pin # "none")
               => ~(r.at > history.created[r.sid].expires_at)

\* C33: whenever touch_start returns an error, because no slot is free or
\* because the emit fails, the active-touch table and the next tracking id
\* are what they were before the call
C33_FailedTouchStartKeepsState ==
    [][\A id \in TouchIds :
          (touch_start(id) /\ (find_free_slot = -1 \/ ~emitted'.ok))
             => /\ active_touches' = active_touches
                /\ next_tracking_id' = next_tracking_id]_vars

\* C34: touch_move, touch_end or touch_cancel with a touch id that is not
\* active emits nothing and leaves the active-touch table as it was, and the
\* handler has returned so that the next event is taken
C34_UnknownTouchIdDropped ==
    [][\A id \in TouchIds :
          (id \notin DOMAIN active_touches
             /\ (touch_move(id) \/ touch_end(id) \/ touch_cancel(id)))
             => /\ emitted' = emitted
                /\ active_touches' = active_touches
                /\ touch_count' = touch_count + 1]_vars

\* of two events handled on a new touchscreen one named a touch id that was
\* not active and was dropped, the other was a touch_start that was emitted
C34_Witness ==
    /\ touch_count = 2
    /\ next_tracking_id = 1
    /\ emitted.op = "touch_start"
    /\ emitted.ok
    /\ emitted.used = {}
    /\ Cardinality(DOMAIN active_touches) = 1

\* C36: while every emit has succeeded, at most one of BTN_TOOL_PEN and
\* BTN_TOOL_RUBBER is 1 on the device, one of them is 1 exactly when the
\* stylus is tracked as in range, and BTN_TOUCH is 1 exactly when the tip is
\* tracked as down
C36_ToolKeysFollowState ==
    ~stylus_emitted.failed =>
        LET keys == stylus_emitted.keys
        IN  /\ ~(keys["BTN_TOOL_PEN"] = 1 /\ keys["BTN_TOOL_RUBBER"] = 1)
            /\ (keys["BTN_TOOL_PEN"] = 1 \/ keys["BTN_TOOL_RUBBER"] = 1) <=> stylus.in_range
            /\ keys["BTN_TOUCH"] = 1 <=> stylus.tip_down

\* the tool was switched from the pen to the eraser with the tip down, every
\* emit having succeeded
C36_Witness ==
    /\ ~stylus_emitted.failed
    /\ stylus_emitted.op = "pen_down"
    /\ stylus_emitted.was.in_range
    /\ ~stylus_emitted.was.eraser_mode
    /\ stylus.eraser_mode
    /\ stylus_emitted.keys["BTN_TOOL_RUBBER"] = 1
    /\ stylus.tip_down

\* the state of the tool-state machine that the fields of the stylus stand for
ToolState(s) ==
    IF s.tip_down THEN "TIP_DOWN" ELSE IF s.in_range THEN "HOVERING" ELSE "OUT_OF_RANGE"

\* the batch handed to emit in this step holds the event
Emits(key, v) == \E i \in DOMAIN stylus_emitted'.events : stylus_emitted'.events[i] = <<key, v>>

\* C35: the stylus follows the tool-state machine: pen_hover from
\* OUT_OF_RANGE enters HOVERING; pen_down enters TIP_DOWN with BTN_TOUCH 1 and
\* distance 0; pen_move stays in TIP_DOWN, and in the other states does what
\* pen_hover does; pen_up from TIP_DOWN returns to HOVERING with BTN_TOUCH 0
\* and does nothing in the other states; pen_leave ends in OUT_OF_RANGE
C35_ToolStateMachine ==
    [][/\ (pen_hover /\ ToolState(stylus) = "OUT_OF_RANGE")
            => /\ ToolState(stylus') = "HOVERING"
               /\ Emits(ToolKey(stylus.eraser_mode), 1)
               /\ Emits("ABS_DISTANCE", HOVER_DISTANCE)
       /\ pen_down
            => /\ ToolState(stylus') = "TIP_DOWN"
               /\ Emits("BTN_TOUCH", 1)
               /\ Emits("ABS_DISTANCE", 0)
       /\ (pen_move /\ ToolState(stylus) = "TIP_DOWN")
            => ToolState(stylus') = "TIP_DOWN"
       /\ (pen_move /\ ToolState(stylus) # "TIP_DOWN")
            => \E s \in PenSamples :
                  LET abs == stylus_to_absolute(s.x, s.y)
                  IN  /\ ToolState(stylus') = "HOVERING"
                      /\ stylus' = [stylus EXCEPT !.in_range = TRUE]
                      /\ Emits("ABS_X", abs[1]) /\ Emits("ABS_Y", abs[2])
                      /\ Emits("ABS_PRESSURE", 0)
                      /\ Emits("ABS_DISTANCE", HOVER_DISTANCE)
                      /\ ~stylus.in_range => Emits(ToolKey(stylus.eraser_mode), 1)
       /\ (pen_up /\ ToolState(stylus) = "TIP_DOWN")
            => /\ ToolState(stylus') = "HOVERING"
               /\ Emits("BTN_TOUCH", 0)
       /\ (pen_up /\ ToolState(stylus) # "TIP_DOWN")
            => /\ stylus' = stylus
               /\ stylus_emitted' = stylus_emitted
       /\ pen_leave
            => ToolState(stylus') = "OUT_OF_RANGE"]_vars

\* the stylus has gone from OUT_OF_RANGE through TIP_DOWN and HOVERING back to
\* OUT_OF_RANGE: the last batch is that of pen_leave from HOVERING
C35_Witness ==
    /\ stylus_emitted.op = "pen_leave"
    /\ ToolState(stylus_emitted.was) = "HOVERING"
    /\ ToolState(stylus) = "OUT_OF_RANGE"
    /\ stylus_emitted.keys["BTN_TOUCH"] = 0
    /\ stylus_count >= 4

(* ----------------------- mouse.rs: RelativeMouse ------------------------ *)

\* the divisor of the scroll deltas
SCROLL_DIVISOR == 15

\* the deltas of the Scroll events tried
MaxDelta == 20
ScrollDeltas == (0 - MaxDelta)..MaxDelta

\* a / b as an f64 cast to i32: the fraction is dropped (b > 0)
AsI32(a, b) == IF a >= 0 THEN a \div b ELSE 0 - ((0 - a) \div b)

\* a / b rounded to the nearest integer, halves away from zero (b > 0)
Round(a, b) == IF a >= 0 THEN (2 * a + b) \div (2 * b) ELSE 0 - ((b - 2 * a) \div (2 * b))

\* RelativeMouse::scroll: the events handed to device.emit, none when the
\* call returns before it
ScrollEvents(dx, dy) ==
    LET scroll_x == AsI32(0 - dx, SCROLL_DIVISOR)
        scroll_y == AsI32(0 - dy, SCROLL_DIVISOR)
    IN  IF scroll_x = 0 /\ scroll_y = 0
        THEN <<>>
        ELSE (IF scroll_y # 0 THEN << <<"REL_WHEEL", scroll_y>> >> ELSE <<>>)
             \o (IF scroll_x # 0 THEN << <<"REL_HWHEEL", scroll_x>> >> ELSE <<>>)
             \o << <<"SYN", 0>> >>

\* InputEvent::Scroll { dx, dy } handled by the input task
scroll ==
    /\ \E dx \in ScrollDeltas, dy \in ScrollDeltas :
         scroll_emitted' = [op |-> "scroll", dx |-> dx, dy |-> dy, events |-> ScrollEvents(dx, dy)]
    /\ UNCHANGED <<authVars, pc, loc, gateVars, videoVars, histVars, inputVars, storeVars,
                   captureVars, encVars, stylusVars, tlsVars,
                   ws_in, sock, input_tx, input_rx_open, dispatched,
                   server_handle, server_tasks, ui_events, ctl_pc, command_rx>>

InitScroll == ServerUp(TRUE) /\ Recording(FALSE)

NextScroll == scroll

SpecScroll == InitScroll /\ [][NextScroll]_vars

\* the values the last scroll emitted on an axis
AxisValues(axis) ==
    {scroll_emitted.events[i][2] :
        i \in {j \in DOMAIN scroll_emitted.events : scroll_emitted.events[j][1] = axis}}

\* C37: for every Scroll{dx,dy} with integer deltas the relative mouse emits
\* REL_WHEEL = round(-dy/15) and REL_HWHEEL = round(-dx/15), leaves out an
\* axis whose value is 0, and emits nothing when both values are 0
C37_ScrollRounds ==
    scroll_emitted.op = "scroll" =>
        LET wheel == Round(0 - scroll_emitted.dy, SCROLL_DIVISOR)
            hwheel == Round(0 - scroll_emitted.dx, SCROLL_DIVISOR)
        IN  /\ AxisValues("REL_WHEEL") = IF wheel = 0 THEN {} ELSE {wheel}
            /\ AxisValues("REL_HWHEEL") = IF hwheel = 0 THEN {} ELSE {hwheel}
            /\ (wheel = 0 /\ hwheel = 0) => scroll_emitted.events = <<>>

(* ------------- websocket.rs / main.rs: the input channel ---------------- *)

\* mpsc::channel(64) of input events
INPUT_CAPACITY == 64

\* messages read from one input socket
MaxWsMsgs == 3

\* what receiver.next() yields: a text that parses as an InputEvent, a text
\* that does not, a ping, a close, a receive error, or any other message
WsMessages == {"event", "invalid", "ping", "close", "error", "other"}

DeskFrame == UNCHANGED <<authVars, pc, loc, gateVars, videoVars, histVars, inputVars, storeVars,
                         captureVars, encVars, stylusVars, tlsVars>>

\* input_ws_handler has upgraded the connection: handle_input_socket starts
handle_input_socket(p) ==
    /\ sock[p].state = "none"
    /\ sock' = [sock EXCEPT ![p].state = "loop"]
    /\ DeskFrame
    /\ UNCHANGED <<scroll_emitted, ws_in, input_tx, input_rx_open, dispatched,
                   server_handle, server_tasks, ui_events, ctl_pc, command_rx>>

\* handle_input_socket: receiver.next() and the match on the message
input_socket_next(p, maxMsgs) ==
    /\ sock[p].state = "loop"
    /\ Len(ws_in[p]) < maxMsgs
    /\ \E msg \in WsMessages :
         /\ ws_in' = [ws_in EXCEPT ![p] = Append(@, msg)]
         /\ \/ /\ msg = "event"
               /\ sock' = [sock EXCEPT ![p] = [state |-> "send", held |-> Len(ws_in[p]) + 1]]
            \/ /\ msg \in {"invalid", "other"}
               /\ UNCHANGED sock
            \/ /\ msg = "ping"
               /\ \/ UNCHANGED sock
                  \/ sock' = [sock EXCEPT ![p].state = "closed"]
            \/ /\ msg \in {"close", "error"}
               /\ sock' = [sock EXCEPT ![p].state = "closed"]
    /\ DeskFrame
    /\ UNCHANGED <<scroll_emitted, input_tx, input_rx_open, dispatched,
                   server_handle, server_tasks, ui_events, ctl_pc, command_rx>>

\* a send that puts the event in front of the events already queued
input_socket_send_first(p) ==
    /\ sock[p].state = "send"
    /\ IF input_rx_open
       THEN /\ Len(input_tx) < INPUT_CAPACITY
            /\ input_tx' = <<[conn |-> p, n |-> sock[p].held]>> \o input_tx
            /\ sock' = [sock EXCEPT ![p] = [state |-> "loop", held |-> 0]]
       ELSE /\ sock' = [sock EXCEPT ![p] = [state |-> "closed", held |-> 0]]
            /\ UNCHANGED input_tx
    /\ DeskFrame
    /\ UNCHANGED <<scroll_emitted, ws_in, input_rx_open, dispatched,
                   server_handle, server_tasks, ui_events, ctl_pc, command_rx>>

\* handle_input_socket: state.input_tx.send(event).await, which waits for
\* room in the channel and fails when the receiver is gone
input_socket_send(p) ==
    /\ sock[p].state = "send"
    /\ IF input_rx_open
       THEN /\ Len(input_tx) < INPUT_CAPACITY
            /\ input_tx' = Append(input_tx, [conn |-> p, n |-> sock[p].held])
            /\ sock' = [sock EXCEPT ![p] = [state |-> "loop", held |-> 0]]
       ELSE /\ sock' = [sock EXCEPT ![p] = [state |-> "closed", held |-> 0]]
            /\ UNCHANGED input_tx
    /\ DeskFrame
    /\ UNCHANGED <<scroll_emitted, ws_in, input_rx_open, dispatched,
                   server_handle, server_tasks, ui_events, ctl_pc, command_rx>>

\* the input task: input_rx.recv() yields the oldest event queued
input_task_recv ==
    /\ input_rx_open
    /\ input_tx # <<>>
    /\ dispatched' = Append(dispatched, Head(input_tx))
    /\ input_tx' = Tail(input_tx)
    /\ DeskFrame
    /\ UNCHANGED <<scroll_emitted, ws_in, sock, input_rx_open,
                   server_handle, server_tasks, ui_events, ctl_pc, command_rx>>

\* main's cleanup: input_handle.abort() drops input_rx and what is queued
input_task_abort ==
    /\ input_rx_open
    /\ input_rx_open' = FALSE
    /\ input_tx' = <<>>
    /\ DeskFrame
    /\ UNCHANGED <<scroll_emitted, ws_in, sock, dispatched,
                   server_handle, server_tasks, ui_events, ctl_pc, command_rx>>

InitInput == ServerUp(TRUE) /\ Recording(FALSE)

NextInput ==
    \/ \E p \in Procs : handle_input_socket(p)
    \/ \E p \in Procs : input_socket_next(p, MaxWsMsgs)
    \/ \E p \in Procs : input_socket_send(p)
    \/ input_task_recv
    \/ input_task_abort

SpecInput == InitInput /\ [][NextInput]_vars

\* the events of connection p that have left its socket task, oldest first
Forwarded(p) ==
    LET all == dispatched \o input_tx
        OfConn(e) == e.conn = p
        own == SelectSeq(all, OfConn)
    IN  [i \in DOMAIN own |-> own[i].n]

\* C38: an input text message that does not parse is dropped: the socket
\* task stays in its loop and nothing is sent to the input task; and the
\* well-formed events of one connection reach the input task in the order
\* in which they were received
C38_InvalidDroppedOrderKept ==
    /\ [][\A p \in Procs :
            (Len(ws_in'[p]) > Len(ws_in[p]) /\ ws_in'[p][Len(ws_in'[p])] = "invalid")
                => /\ sock'[p].state = "loop"
                   /\ input_tx' = input_tx
                   /\ dispatched' = dispatched]_vars
    /\ [](\A p \in Procs :
            /\ \A i \in DOMAIN Forwarded(p) :
                  /\ Forwarded(p)[i] \in DOMAIN ws_in[p]
                  /\ ws_in[p][Forwarded(p)[i]] = "event"
            /\ \A i, j \in DOMAIN Forwarded(p) : i < j => Forwarded(p)[i] < Forwarded(p)[j])

\* connection 1 received an event, a text that does not parse and an event,
\* is still in its loop, and the input task has received both events
C38_Witness ==
    /\ ws_in[1] = <<"event", "invalid", "event">>
    /\ sock[1].state = "loop"
    /\ \E i, j \in DOMAIN dispatched :
          /\ i < j
          /\ dispatched[i] = [conn |-> 1, n |-> 1]
          /\ dispatched[j] = [conn |-> 1, n |-> 3]

\* C39: when the device file exists but does not parse at startup, the store
\* starts with an empty map and the file is left as it is: the file changes
\* only in a save, and a save is only called by an operation that changes
\* the store
C39_UnparsableFileLeftAlone ==
    [][/\ (restart /\ file = Corrupt)
            => /\ devices' = EmptyMap
               /\ file' = Corrupt
               /\ \A p \in Procs : writing'[p] = NoWrite
       /\ file' # file
            => \E p \in Procs : save_open(p) \/ save_write(p)
       /\ \A p \in Procs :
            (writing'[p].stage = "pending" /\ writing[p].stage # "pending")
                => save_device(p) \/ remove_device(p) \/ touch_device(p) \/ clear(p)]_vars

\* the store was started on a file that does not parse (no save has returned
\* or is under way since the start) and holds an empty map
C39_Witness ==
    /\ file = Corrupt
    /\ devices = EmptyMap
    /\ history.last_write = "none"
    /\ \A p \in Procs : writing[p] = NoWrite

(* ------------------ controller.rs: ServerController --------------------- *)

\* commands received by one controller
MaxCommands == 4

\* the server tasks spawned and not yet ended
RunningTasks == {t \in DOMAIN server_tasks : server_tasks[t] # "ended"}

ControllerFrame ==
    UNCHANGED <<authVars, pc, loc, gateVars, videoVars, histVars, inputVars, storeVars,
                captureVars, encVars, stylusVars, tlsVars,
                scroll_emitted, ws_in, sock, input_tx, input_rx_open, dispatched>>

\* ServerController::start_server: an error of CertificateManager::new,
\* load_or_generate or DeviceStorage::new is reported and nothing is spawned;
\* else the server task is spawned and its shutdown sender kept
start_server ==
    \/ /\ ui_events' = Append(ui_events, "ServerError")
       /\ UNCHANGED <<server_handle, server_tasks>>
    \/ /\ server_tasks' = Append(server_tasks, "running")
       /\ server_handle' = Len(server_tasks) + 1
       /\ UNCHANGED ui_events

\* ServerController::stop_server: the handle is taken and the shutdown
\* signal sent; a send to a task that has ended is dropped
stop_server ==
    /\ server_handle' = 0
    /\ server_tasks' = IF server_handle # 0 /\ server_tasks[server_handle] = "running"
                       THEN [server_tasks EXCEPT ![server_handle] = "signalled"]
                       ELSE server_tasks
    /\ UNCHANGED ui_events

\* ServerController::run: one command received and handled
command(c) ==
    /\ ctl_pc = "run"
    /\ Len(command_rx) < MaxCommands
    /\ command_rx' = Append(command_rx, c)
    /\ \/ /\ c = "StartServer"
          /\ IF server_handle = 0
             THEN start_server
             ELSE UNCHANGED <<server_handle, server_tasks, ui_events>>
          /\ UNCHANGED ctl_pc
       \/ /\ c = "StopServer"
          /\ stop_server
          /\ UNCHANGED ctl_pc
       \/ /\ c = "Shutdown"
          /\ stop_server
          /\ ctl_pc' = "stopped"
       \/ /\ c = "SetMdns"
          /\ UNCHANGED <<server_handle, server_tasks, ui_events, ctl_pc>>
    /\ ControllerFrame

\* the spawned task: run_server returns an error, or returns when the
\* server future completes, or after the shutdown signal
server_task_ends(t) ==
    /\ t \in RunningTasks
    /\ server_tasks' = [server_tasks EXCEPT ![t] = "ended"]
    /\ \/ ui_events' = ui_events \o <<"ServerError", "ServerStopped">>
       \/ ui_events' = Append(ui_events, "ServerStopped")
    /\ UNCHANGED <<server_handle, ctl_pc, command_rx>>
    /\ ControllerFrame

UiCommands == {"StartServer", "StopServer", "Shutdown", "SetMdns"}

InitController == ServerUp(TRUE) /\ Recording(FALSE)

NextController ==
    \/ \E c \in UiCommands : command(c)
    \/ \E t \in 1..MaxCommands : server_task_ends(t)

SpecController == InitController /\ [][NextController]_vars

\* C40: a StartServer command received while no server task is running
\* starts a server task (or reports the error that kept start_server from
\* spawning it), also after a task that ended on its own with an error; and
\* at most one server task is running at any time
C40_StartServerStartsOneTask ==
    /\ [][(/\ Len(command_rx') > Len(command_rx)
           /\ command_rx'[Len(command_rx')] = "StartServer"
           /\ RunningTasks = {})
              => (RunningTasks' # {} \/ Len(ui_events') > Len(ui_events))]_vars
    /\ [](Cardinality(RunningTasks) <= 1)

====
